---- MODULE Spec2Model ----
(***************************************************************************)
(* Model of the statement normalization and valuation-metrics engine of    *)
(* fundamentals-yf (src/src/index.ts).                                     *)
(*                                                                         *)
(* JavaScript values are records tagged by the field k:                    *)
(*   "number"    a finite number, the exact rational n/d (d > 0, reduced)  *)
(*   "NaN"       the number NaN                                            *)
(*   "Infinity"  +Infinity (n = 1) or -Infinity (n = -1)                   *)
(*   "surd"      the irrational number (n/d)^(1/q) + p                     *)
(*   "undefined", "null", "string" (s), "DateTime" (t, in ticks)           *)
(* Arithmetic is the arithmetic of the reals: the rounding of IEEE doubles *)
(* is not modelled, NaN, the infinities and undefined are.                 *)
(***************************************************************************)
EXTENDS Integers, Sequences, FiniteSets, TLC

VARIABLES
    prices,      \* the price series (ChartResultArrayQuote[]) fetched for the symbol
    rates,       \* the FX rate series fetched for the currency pair
    dataset,     \* what the data provider reports for each period-end date
    statements,  \* the statement series fetched so far, in arrival order
    call,        \* the last call made into the engine and its outcome
    batch,       \* the batch run of main.ts: its pipelines, Promise.all and writer
    api          \* the fetch layer: memoization cache, retries and log suppression

vars == <<prices, rates, dataset, statements, call, batch, api>>

----------------------------------------------------------------------------
(* Bounds of the model *)

MaxPrices == 3      \* longest price series
NumPeriods == 5     \* period-end dates the provider reports a statement for
NumDays == 2        \* calendar days a price point or a target date can fall on
TicksPerDay == 2    \* instants told apart within one calendar day

Ticks == 0..(NumDays * TicksPerDay - 1)

----------------------------------------------------------------------------
(* JavaScript values *)

Undef == [k |-> "undefined"]
Null == [k |-> "null"]
NaN == [k |-> "NaN"]
Infinity(sign) == [k |-> "Infinity", n |-> sign]
Str(s) == [k |-> "string", s |-> s]
DateTime(t) == [k |-> "DateTime", t |-> t]

Abs(i) == IF i < 0 THEN -i ELSE i
Sign(i) == IF i < 0 THEN -1 ELSE IF i > 0 THEN 1 ELSE 0

RECURSIVE Gcd(_, _)
Gcd(a, b) == IF b = 0 THEN a ELSE Gcd(b, a % b)

\* the finite number n/d, reduced, with a positive denominator
Frac(n, d) ==
    LET g == Gcd(Abs(n), Abs(d))
    IN  [k |-> "number", n |-> Sign(d) * (n \div g), d |-> Abs(d) \div g]

Num(i) == [k |-> "number", n |-> i, d |-> 1]

\* typeof v === "number"
TypeofNumber(v) == v.k \in {"number", "NaN", "Infinity", "surd"}

\* ToBoolean: what `v ? a : b`, `!v`, `a && b` and `a || b` test
Truthy(v) ==
    CASE v.k = "number" -> v.n # 0
      [] v.k = "string" -> v.s # ""
      [] v.k \in {"undefined", "null", "NaN"} -> FALSE
      [] OTHER -> TRUE

\* a ?? b
Coalesce(a, b) == IF a.k \in {"undefined", "null"} THEN b ELSE a
\* a || b
OrElse(a, b) == IF Truthy(a) THEN a ELSE b

\* ToNumber, applied by the arithmetic operators to their operands
ToNumber(v) ==
    CASE v.k = "undefined" -> NaN
      [] v.k = "null" -> Num(0)
      [] v.k = "DateTime" -> Num(v.t)
      [] v.k = "string" -> NaN
      [] OTHER -> v

IsFinite(v) == v.k = "number"

\* x * y
Mul(x, y) ==
    LET a == ToNumber(x)
        b == ToNumber(y)
    IN  CASE a.k = "NaN" \/ b.k = "NaN" -> NaN
          [] a.k = "number" /\ b.k = "number" -> Frac(a.n * b.n, a.d * b.d)
          [] a.k = "Infinity" /\ b.k = "Infinity" -> Infinity(a.n * b.n)
          [] a.k = "Infinity" /\ b.k = "number" ->
                IF b.n = 0 THEN NaN ELSE Infinity(a.n * Sign(b.n))
          [] a.k = "number" /\ b.k = "Infinity" ->
                IF a.n = 0 THEN NaN ELSE Infinity(b.n * Sign(a.n))
          [] OTHER -> NaN

\* x / y (a zero divisor is +0: no operand of the model is negative zero)
Div(x, y) ==
    LET a == ToNumber(x)
        b == ToNumber(y)
    IN  CASE a.k = "NaN" \/ b.k = "NaN" -> NaN
          [] a.k = "number" /\ b.k = "number" ->
                IF b.n # 0 THEN Frac(a.n * b.d, a.d * b.n)
                ELSE IF a.n = 0 THEN NaN ELSE Infinity(Sign(a.n))
          [] a.k = "Infinity" /\ b.k = "number" ->
                Infinity(a.n * (IF b.n < 0 THEN -1 ELSE 1))
          [] a.k = "number" /\ b.k = "Infinity" -> Num(0)
          [] OTHER -> NaN

\* x + y on numbers
Add(x, y) ==
    LET a == ToNumber(x)
        b == ToNumber(y)
    IN  CASE a.k = "NaN" \/ b.k = "NaN" -> NaN
          [] a.k = "number" /\ b.k = "number" ->
                Frac(a.n * b.d + b.n * a.d, a.d * b.d)
          [] a.k = "Infinity" /\ b.k = "Infinity" ->
                IF a.n = b.n THEN a ELSE NaN
          [] a.k = "Infinity" /\ b.k = "number" -> a
          [] a.k = "number" /\ b.k = "Infinity" -> b
          [] a.k = "surd" /\ b.k = "number" /\ b.d = 1 -> [a EXCEPT !.p = @ + b.n]
          [] OTHER -> NaN

Neg(x) ==
    LET a == ToNumber(x)
    IN  CASE a.k = "number" -> Frac(-a.n, a.d)
          [] a.k = "Infinity" -> Infinity(-a.n)
          [] OTHER -> NaN

\* x - y
Sub(x, y) == Add(x, Neg(y))

\* x <= 0 (false when x is NaN)
LeqZero(x) ==
    LET a == ToNumber(x)
    IN  CASE a.k = "number" -> a.n <= 0
          [] a.k = "Infinity" -> a.n < 0
          [] OTHER -> FALSE

RECURSIVE IntPow(_, _)
IntPow(b, e) == IF e = 0 THEN 1 ELSE b * IntPow(b, e - 1)

RECURSIVE RootFrom(_, _, _)
\* the least r >= from with r^q >= m
RootFrom(m, q, from) == IF IntPow(from, q) >= m THEN from ELSE RootFrom(m, q, from + 1)

IsPerfectPower(m, q) == IntPow(RootFrom(m, q, 0), q) = m

\* Math.pow(x, 1 / q) for an integer q >= 1: the real q-th root of a positive
\* number, NaN for a negative one
PowInverse(x, q) ==
    LET a == ToNumber(x)
    IN  CASE a.k = "number" /\ a.n < 0 -> NaN
          [] a.k = "number" /\ a.n = 0 -> Num(0)
          [] a.k = "number" /\ a.n > 0 ->
                IF IsPerfectPower(a.n, q) /\ IsPerfectPower(a.d, q)
                THEN Frac(RootFrom(a.n, q, 0), RootFrom(a.d, q, 0))
                ELSE [k |-> "surd", n |-> a.n, d |-> a.d, q |-> q, p |-> 0]
          [] a.k = "Infinity" /\ a.n > 0 -> a
          [] OTHER -> NaN

----------------------------------------------------------------------------
(* Sequences *)

RECURSIVE InsertStable(_, _, _, _)
\* index x put into the sorted index sequence order before the first index whose key is greater
InsertStable(order, x, keys, i) ==
    IF i > Len(order) THEN Append(order, x)
    ELSE IF keys[x] < keys[order[i]]
         THEN SubSeq(order, 1, i - 1) \o <<x>> \o SubSeq(order, i, Len(order))
         ELSE InsertStable(order, x, keys, i + 1)

RECURSIVE StableOrderFrom(_, _, _)
StableOrderFrom(keys, i, order) ==
    IF i > Len(keys) THEN order
    ELSE StableOrderFrom(keys, i + 1, InsertStable(order, i, keys, 1))

\* Array.prototype.sort and _.sortBy are stable: s by ascending keys (keys[i] the
\* key of s[i]), elements with equal keys in their order in s
StableSort(s, keys) ==
    LET order == StableOrderFrom(keys, 1, <<>>)
    IN  [i \in 1..Len(s) |-> s[order[i]]]

\* _.takeRight(s, n)
TakeRight(s, n) == IF Len(s) <= n THEN s ELSE SubSeq(s, Len(s) - n + 1, Len(s))
\* _.dropRight(s, n)
DropRight(s, n) == IF Len(s) <= n THEN <<>> ELSE SubSeq(s, 1, Len(s) - n)

----------------------------------------------------------------------------
(* Dates: an instant is a tick; a calendar day is TicksPerDay ticks *)

DayOf(t) == t \div TicksPerDay
\* DateTime.startOf("day")
StartOfDay(t) == DayOf(t) * TicksPerDay
\* a.hasSame(b, "day")
HasSameDay(a, b) == DayOf(a) = DayOf(b)

----------------------------------------------------------------------------
(* Statements. The provider reports one statement per period-end date; what *)
(* it reports is fixed by the data set, a record of four offsets:           *)
(*   sh  which of basicAverageShares / ordinarySharesNumber are present,    *)
(*       zero or absent on each date                                        *)
(*   fl  which of the other fields are present, zero or absent on each date *)
(*   rev, ni  the totalRevenue and netIncome reported on each date          *)
(* so that over the data sets every date sees every case of every field.    *)

Periods == 1..NumPeriods
\* the instant of period-end date d
PeriodEnd(d) == d * TicksPerDay

Pick(i, present, zero, absent) ==
    CASE i = 0 -> present [] i = 1 -> zero [] OTHER -> absent

RevenueValues == <<Num(1000), Num(8), Undef, Num(1331), Num(2000), Num(0), Num(-500)>>
NetIncomeValues == <<Num(100), Undef, Num(0), Num(800), Num(-40), Num(2700), Num(12)>>

NoDataset == [sh |-> 0, fl |-> 0, rev |-> 0, ni |-> 0]

\* the data set of the worked example: every period reports netIncome 100 and
\* freeCashFlow 50, and the latest period 1000 basic average shares; no period
\* reports stock-based compensation
ExampleDataset == [sh |-> 9, fl |-> 0, rev |-> 0, ni |-> 0]

ExampleStatement(d) ==
    [date |-> DateTime(PeriodEnd(d)),
     periodType |-> Str("3M"),
     TYPE |-> Str("ALL"),
     basicAverageShares |-> IF d = NumPeriods THEN Num(1000) ELSE Num(800),
     ordinarySharesNumber |-> Num(950),
     dilutedAverageShares |-> Num(1250),
     shareIssued |-> Num(1200),
     taxRateForCalcs |-> Frac(21, 100),
     netIncome |-> Num(100),
     totalRevenue |-> Num(500),
     freeCashFlow |-> Num(50),
     stockBasedCompensation |-> Undef,
     operatingIncome |-> Num(150),
     cashCashEquivalentsAndShortTermInvestments |-> Num(600),
     cashAndCashEquivalents |-> Num(400),
     totalDebt |-> Num(700),
     basicEPS |-> Frac(1, 10)]

\* the statement of data set ds for period-end date d (an absent field is undefined)
ReportedStatement(ds, d) ==
    LET c == (ds.sh + d) % 9
        f == (ds.fl + d) % 3
    IN  IF ds = ExampleDataset THEN ExampleStatement(d) ELSE
        [date |-> DateTime(PeriodEnd(d)),
         periodType |-> Str("3M"),
         TYPE |-> Str("ALL"),
         basicAverageShares |-> Pick(c % 3, Num(1000 + 10 * d), Num(0), Undef),
         ordinarySharesNumber |-> Pick(c \div 3, Num(900 + 10 * d), Num(0), Undef),
         dilutedAverageShares |-> Pick(f, Num(1100 + 10 * d), Undef, Num(0)),
         shareIssued |-> Num(1200 + d),
         taxRateForCalcs |-> Frac(21, 100),
         netIncome |-> NetIncomeValues[((ds.ni + d) % 7) + 1],
         totalRevenue |-> RevenueValues[((ds.rev + d) % 7) + 1],
         freeCashFlow |-> Pick(f, Num(50 * d), Num(0), Undef),
         stockBasedCompensation |-> Pick(f, Num(10 * d), Num(5), Undef),
         operatingIncome |-> Pick(f, Num(30 * d), Num(-20), Undef),
         cashCashEquivalentsAndShortTermInvestments |-> Pick(f, Num(500 + d), Num(0), Undef),
         cashAndCashEquivalents |-> Pick(f, Num(300 + d), Num(310 + d), Undef),
         totalDebt |-> Pick(f, Num(700 + d), Num(0), Undef),
         basicEPS |-> Pick(f, Frac(d, 2), Num(0), Undef)]

\* the mutant of SortByDate that leaves the series in arrival order
SortByDate_arrivalOrder(s) == s

\* _.sortBy(s, x => x.date)
SortByDate(s) == StableSort(s, [i \in 1..Len(s) |-> s[i].date.t])

RECURSIVE BaseSum(_, _, _)
\* lodash baseSum: undefined values are skipped; undefined when nothing was added
BaseSum(values, i, result) ==
    IF i > Len(values) THEN result
    ELSE LET current == values[i]
         IN  BaseSum(values, i + 1,
                     IF current = Undef THEN result
                     ELSE IF result = Undef THEN current ELSE Add(result, current))

\* the mutant of Sum that counts an undefined value as 0
Sum_undefinedAsZero(values) ==
    IF Len(values) = 0 THEN Num(0)
    ELSE BaseSum([i \in 1..Len(values) |-> IF values[i] = Undef THEN Num(0) ELSE values[i]],
                 1, Undef)

\* _.sum(values), and _.sumBy(s, iteratee) with values the iteratee of each element
Sum(values) == IF Len(values) = 0 THEN Num(0) ELSE BaseSum(values, 1, Undef)

\* _(s).map(statement => statement[field]).sum()
SumOf(s, field) == Sum([i \in 1..Len(s) |-> s[i][field]])

----------------------------------------------------------------------------
(* priceOn *)

Returned(v) == [status |-> "return", value |-> v]
Thrown(msg) == [status |-> "throw", error |-> msg]

RECURSIVE MinByFrom(_, _, _)
MinByFrom(ps, i, best) ==
    IF i > Len(ps) THEN best
    ELSE MinByFrom(ps, i + 1, IF ps[i].date < ps[best].date THEN i ELSE best)

\* _.minBy(prices, p => p.date): index of the first point with the least date,
\* 0 (undefined) when the series is empty
MinByDate(ps) == IF Len(ps) = 0 THEN 0 ELSE MinByFrom(ps, 2, 1)

\* prices.filter(...): the points on the day of date or an earlier day
OnDayOrBefore(date, ps) ==
    SelectSeq(ps, LAMBDA p : HasSameDay(p.date, date) \/ StartOfDay(p.date) < StartOfDay(date))

\* .sort((a, b) => b.date.getTime() - a.date.getTime())
SortLatestFirst(ps) == StableSort(ps, [i \in 1..Len(ps) |-> 0 - ps[i].date])

\* the mutant of priceOn that sorts the matching points ascending
priceOn_sortAscending(date, ps) ==
    LET earliestPrice == MinByDate(ps)
        matching == OnDayOrBefore(date, ps)
        sorted == StableSort(matching, [i \in 1..Len(matching) |-> matching[i].date])
    IN  IF earliestPrice # 0 /\ StartOfDay(date) < StartOfDay(ps[earliestPrice].date)
        THEN Thrown("Requested date is before the earliest available price date")
        ELSE Returned(IF Len(sorted) = 0 THEN Undef ELSE sorted[1].close)

\* the mutant of priceOn without the range guard
priceOn_noGuard(date, ps) ==
    LET sorted == SortLatestFirst(OnDayOrBefore(date, ps))
    IN  Returned(IF Len(sorted) = 0 THEN Undef ELSE sorted[1].close)

priceOn(date, ps) ==
    LET earliestPrice == MinByDate(ps)
        sorted == SortLatestFirst(OnDayOrBefore(date, ps))
    IN  IF earliestPrice # 0 /\ StartOfDay(date) < StartOfDay(ps[earliestPrice].date)
        THEN Thrown("Requested date is before the earliest available price date")
        ELSE Returned(IF Len(sorted) = 0 THEN Undef ELSE sorted[1].close)

----------------------------------------------------------------------------
(* The price resolver on its own: a price series arrives point by point, in *)
(* any order, and priceOn is then called with any target date.              *)

Closes == {Num(10), Num(20)}
PricePoints == [date : Ticks, close : Closes]

NoCall == [op |-> "none"]
\* no batch run
NoBatch == [state |-> "none"]
\* the fetch layer left aside
NoApi == [state |-> "none"]

InitPrice ==
    /\ prices = <<>>
    /\ rates = <<>>
    /\ dataset = NoDataset
    /\ statements = <<>>
    /\ call = NoCall
    /\ batch = NoBatch
    /\ api = NoApi

\* one more quote of the chart response
ReceivePrice(p) ==
    /\ call = NoCall
    /\ Len(prices) < MaxPrices
    /\ prices' = Append(prices, p)
    /\ UNCHANGED <<rates, dataset, statements, call, batch, api>>

CallPriceOn(date) ==
    /\ call = NoCall
    /\ call' = [op |-> "priceOn", date |-> date, out |-> priceOn(date, prices)]
    /\ UNCHANGED <<prices, rates, dataset, statements, batch, api>>

NextPrice ==
    \/ \E p \in PricePoints : ReceivePrice(p)
    \/ \E date \in Ticks : CallPriceOn(date)

SpecPrice == InitPrice /\ [][NextPrice]_vars

----------------------------------------------------------------------------
(* calculateValuationMetrics *)

\* the mutant of calculateValuationMetrics that divides without testing eps and freeCashFlow
calculateValuationMetrics_unguarded(input) ==
    LET marketCap == Mul(input.close, input.sharesOutstanding)
        dilutedMarketCap == Mul(input.close, input.dilutedSharesOutstanding)
        adjusted == Truthy(input.freeCashFlow) /\ Truthy(input.stockBasedCompensation)
    IN  [date |-> input.date,
         close |-> input.close,
         sharesOutstanding |-> input.sharesOutstanding,
         dilutedSharesOutstanding |-> input.dilutedSharesOutstanding,
         marketCap |-> marketCap,
         dilutedMarketCap |-> dilutedMarketCap,
         netIncome |-> input.netIncome,
         freeCashFlow |-> input.freeCashFlow,
         stockBasedCompensation |-> input.stockBasedCompensation,
         eps |-> input.eps,
         pe |-> Div(input.close, input.eps),
         fcfYield |-> Div(input.freeCashFlow, marketCap),
         fcfYieldAdjusted |->
            IF adjusted
            THEN Div(Sub(input.freeCashFlow, input.stockBasedCompensation), dilutedMarketCap)
            ELSE Null,
         fcfPerShare |-> Div(input.freeCashFlow, input.sharesOutstanding),
         fcfPerShareAdjusted |->
            IF adjusted
            THEN Div(Sub(input.freeCashFlow, input.stockBasedCompensation),
                     input.dilutedSharesOutstanding)
            ELSE Null,
         totalCash |-> input.totalCash,
         totalDebt |-> input.totalDebt,
         totalRevenue |-> input.totalRevenue,
         operatingIncome |-> input.operatingIncome]

calculateValuationMetrics(input) ==
    LET marketCap == Mul(input.close, input.sharesOutstanding)
        dilutedMarketCap == Mul(input.close, input.dilutedSharesOutstanding)
        adjusted == Truthy(input.freeCashFlow) /\ Truthy(input.stockBasedCompensation)
    IN  [date |-> input.date,
         close |-> input.close,
         sharesOutstanding |-> input.sharesOutstanding,
         dilutedSharesOutstanding |-> input.dilutedSharesOutstanding,
         marketCap |-> marketCap,
         dilutedMarketCap |-> dilutedMarketCap,
         netIncome |-> input.netIncome,
         freeCashFlow |-> input.freeCashFlow,
         stockBasedCompensation |-> input.stockBasedCompensation,
         eps |-> input.eps,
         pe |-> IF Truthy(input.eps) THEN Div(input.close, input.eps) ELSE Null,
         fcfYield |->
            IF Truthy(input.freeCashFlow) THEN Div(input.freeCashFlow, marketCap) ELSE Null,
         fcfYieldAdjusted |->
            IF adjusted
            THEN Div(Sub(input.freeCashFlow, input.stockBasedCompensation), dilutedMarketCap)
            ELSE Null,
         fcfPerShare |->
            IF Truthy(input.freeCashFlow)
            THEN Div(input.freeCashFlow, input.sharesOutstanding)
            ELSE Null,
         fcfPerShareAdjusted |->
            IF adjusted
            THEN Div(Sub(input.freeCashFlow, input.stockBasedCompensation),
                     input.dilutedSharesOutstanding)
            ELSE Null,
         totalCash |-> input.totalCash,
         totalDebt |-> input.totalDebt,
         totalRevenue |-> input.totalRevenue,
         operatingIncome |-> input.operatingIncome]

----------------------------------------------------------------------------
(* The valuation calculator on its own: called with any input of the sets   *)
(* below, which hold undefined, zero, positive, negative and fractional     *)
(* values of each operand of a ratio.                                       *)

ValuationInputs ==
    [date : {0},
     close : {Undef, Num(0), Num(20)},
     sharesOutstanding : {Undef, Num(0), Num(1000)},
     dilutedSharesOutstanding : {Undef, Num(0), Num(1100)},
     netIncome : {Undef, Num(400)},
     freeCashFlow : {Undef, Num(0), Num(200), Num(-30)},
     stockBasedCompensation : {Undef, Num(0), Num(40)},
     eps : {Undef, Num(0), Frac(2, 5), Num(-1)},
     totalCash : {Undef, Num(500)},
     totalDebt : {Undef},
     totalRevenue : {Num(1000)},
     operatingIncome : {Num(300)}]

InitValuation ==
    /\ prices = <<>>
    /\ rates = <<>>
    /\ dataset = NoDataset
    /\ statements = <<>>
    /\ call = NoCall
    /\ batch = NoBatch
    /\ api = NoApi

CallCalculateValuationMetrics(input) ==
    /\ call = NoCall
    /\ call' = [op |-> "calculateValuationMetrics", input |-> input,
                out |-> Returned(calculateValuationMetrics(input))]
    /\ UNCHANGED <<prices, rates, dataset, statements, batch, api>>

NextValuation == \E input \in ValuationInputs : CallCalculateValuationMetrics(input)

SpecValuation == InitValuation /\ [][NextValuation]_vars

----------------------------------------------------------------------------
(* calculateTrailingStatistics *)

\* the mutant of TrailingEps that divides each period by its own share count
TrailingEps_ownShares(sts, sharesOutstanding) ==
    Sum([i \in 1..Len(sts) |->
            IF Truthy(sts[i].netIncome) /\ Truthy(sts[i].basicAverageShares)
            THEN Div(sts[i].netIncome, sts[i].basicAverageShares)
            ELSE Num(0)])

\* index.ts line 120
TrailingEps(sts, sharesOutstanding) ==
    Sum([i \in 1..Len(sts) |->
            IF Truthy(sts[i].netIncome) /\ Truthy(sharesOutstanding)
            THEN Div(sts[i].netIncome, sharesOutstanding)
            ELSE Num(0)])

\* the trailing window once sorted and cut: index.ts lines 110 to 137
TrailingWindow(sts, ps) ==
    LET lastStatement == sts[Len(sts)]
        sharesOutstanding ==
            Coalesce(lastStatement.basicAverageShares, lastStatement.ordinarySharesNumber)
        eps == TrailingEps(sts, sharesOutstanding)
        close == priceOn(lastStatement.date.t, ps)
    IN  IF ~Truthy(sharesOutstanding) THEN Thrown("Shares outstanding not found")
        ELSE IF close.status = "throw" THEN close
        ELSE Returned(calculateValuationMetrics(
                [date |-> lastStatement.date,
                 close |-> close.value,
                 sharesOutstanding |-> sharesOutstanding,
                 dilutedSharesOutstanding |->
                    OrElse(lastStatement.dilutedAverageShares, sharesOutstanding),
                 netIncome |-> SumOf(sts, "netIncome"),
                 freeCashFlow |-> SumOf(sts, "freeCashFlow"),
                 stockBasedCompensation |-> SumOf(sts, "stockBasedCompensation"),
                 eps |-> eps,
                 totalCash |->
                    OrElse(lastStatement.cashCashEquivalentsAndShortTermInvestments,
                           lastStatement.cashAndCashEquivalents),
                 totalDebt |-> lastStatement.totalDebt,
                 totalRevenue |-> SumOf(sts, "totalRevenue"),
                 operatingIncome |-> SumOf(sts, "operatingIncome")]))

\* the mutant of calculateTrailingStatistics that takes the last 4 in arrival order
calculateTrailingStatistics_unsorted(allStatements, ps) ==
    IF Len(allStatements) < 4 THEN Returned(Null)
    ELSE TrailingWindow(TakeRight(allStatements, 4), ps)

\* the mutant of calculateTrailingStatistics whose window runs from the latest
\* statement to the earliest, so that its last statement is the earliest of the 4
calculateTrailingStatistics_latestFirst(allStatements, ps) ==
    IF Len(allStatements) < 4 THEN Returned(Null)
    ELSE LET window == TakeRight(SortByDate(allStatements), 4)
         IN  TrailingWindow([i \in 1..4 |-> window[5 - i]], ps)

calculateTrailingStatistics(allStatements, ps) ==
    IF Len(allStatements) < 4 THEN Returned(Null)
    ELSE TrailingWindow(TakeRight(SortByDate(allStatements), 4), ps)

----------------------------------------------------------------------------
(* The fetched series: the statements of the data set arrive one by one, in *)
(* any order and with any of them missing, one statement per date.          *)

ReceivedDates == {statements[i].date.t : i \in 1..Len(statements)}

ReceiveStatement(d) ==
    /\ call = NoCall
    /\ PeriodEnd(d) \notin ReceivedDates
    /\ statements' = Append(statements, ReportedStatement(dataset, d))
    /\ UNCHANGED <<prices, rates, dataset, call, batch, api>>

\* a daily series with one point per period-end day from day first on, latest first
SeriesFrom(first, closes) ==
    [i \in 1..(NumPeriods - first + 1) |->
        [date |-> PeriodEnd(NumPeriods + 1 - i), close |-> closes[NumPeriods + 1 - i]]]

ClosePrices == [d \in Periods |-> Num(10 * d)]
\* the chart of the worked example: it closes at 20 on the latest period-end date
ExampleClosePrices == [d \in Periods |-> IF d = NumPeriods THEN Num(20) ELSE Num(16)]
\* the chart covers every period-end date, or the last one only, or nothing
PriceSeriesChoices == {SeriesFrom(1, ClosePrices), SeriesFrom(NumPeriods, ClosePrices), <<>>}

----------------------------------------------------------------------------
(* The trailing window aggregator on its own *)

InitTrailing ==
    /\ prices \in PriceSeriesChoices \cup {SeriesFrom(1, ExampleClosePrices)}
    /\ rates = <<>>
    /\ dataset \in [sh : 0..8, fl : 0..2, rev : {0}, ni : {0}] \cup {ExampleDataset}
    /\ statements = <<>>
    /\ call = NoCall
    /\ batch = NoBatch
    /\ api = NoApi

CallCalculateTrailingStatistics ==
    /\ call = NoCall
    /\ call' = [op |-> "calculateTrailingStatistics",
                out |-> calculateTrailingStatistics(statements, prices)]
    /\ UNCHANGED <<prices, rates, dataset, statements, batch, api>>

NextTrailing ==
    \/ \E d \in Periods : ReceiveStatement(d)
    \/ CallCalculateTrailingStatistics

SpecTrailing == InitTrailing /\ [][NextTrailing]_vars

----------------------------------------------------------------------------
(* calculateGrowth *)

\* the mutant of revenueGrowth that does not test the end value
revenueGrowth_endUnchecked(firstStatement, lastStatement, intervals) ==
    LET start == firstStatement.totalRevenue
        end == lastStatement.totalRevenue
    IN  IF ~Truthy(start) \/ LeqZero(start)
        THEN Null
        ELSE Sub(PowInverse(Div(end, start), intervals), Num(1))

revenueGrowth(firstStatement, lastStatement, intervals) ==
    LET start == firstStatement.totalRevenue
        end == lastStatement.totalRevenue
    IN  IF ~Truthy(start) \/ ~Truthy(end) \/ LeqZero(start) \/ LeqZero(end)
        THEN Null
        ELSE Sub(PowInverse(Div(end, start), intervals), Num(1))

earningsGrowth(firstStatement, lastStatement, intervals) ==
    LET start == firstStatement.netIncome
        end == lastStatement.netIncome
    IN  IF ~Truthy(start) \/ ~Truthy(end) \/ LeqZero(start) \/ LeqZero(end)
        THEN Null
        ELSE Sub(PowInverse(Div(end, start), intervals), Num(1))

\* the 4-period window once sorted and cut: index.ts lines 187 to 218
GrowthWindow(sts) ==
    LET firstStatement == sts[1]
        lastStatement == sts[Len(sts)]
        intervals == Len(sts) - 1
    IN  [revenue |-> revenueGrowth(firstStatement, lastStatement, intervals),
         earnings |-> earningsGrowth(firstStatement, lastStatement, intervals)]

\* the mutant of calculateGrowth that spans the whole series instead of its last 4 periods
calculateGrowth_wholeSeries(statementsInput) ==
    IF Len(statementsInput) < 4 THEN Null
    ELSE GrowthWindow(SortByDate(statementsInput))

calculateGrowth(statementsInput) ==
    IF Len(statementsInput) < 4 THEN Null
    ELSE GrowthWindow(TakeRight(SortByDate(statementsInput), 4))

----------------------------------------------------------------------------
(* The growth calculator on its own *)

InitGrowth ==
    /\ prices = <<>>
    /\ rates = <<>>
    /\ dataset \in [sh : {0}, fl : {0}, rev : 0..6, ni : 0..6]
    /\ statements = <<>>
    /\ call = NoCall
    /\ batch = NoBatch
    /\ api = NoApi

CallCalculateGrowth ==
    /\ call = NoCall
    /\ call' = [op |-> "calculateGrowth", out |-> Returned(calculateGrowth(statements))]
    /\ UNCHANGED <<prices, rates, dataset, statements, batch, api>>

NextGrowth ==
    \/ \E d \in Periods : ReceiveStatement(d)
    \/ CallCalculateGrowth

SpecGrowth == InitGrowth /\ [][NextGrowth]_vars

----------------------------------------------------------------------------
(* convertCurrencyInStatements *)

\* the mutant of nonCurrencyFields that leaves out the share counts
nonCurrencyFields_withoutShares ==
    {"date", "periodType", "TYPE", "taxRateForCalcs"}

nonCurrencyFields ==
    {"date", "periodType", "TYPE", "basicAverageShares", "dilutedAverageShares",
     "ordinarySharesNumber", "shareIssued", "taxRateForCalcs"}

\* the mutant of ConvertStatement that rounds the converted amount to a whole unit
ConvertStatement_rounded(statement, rate) ==
    [key \in DOMAIN statement |->
        IF TypeofNumber(statement[key]) /\ key \notin nonCurrencyFields
        THEN LET x == Mul(statement[key], rate)
             IN  IF x.k = "number" THEN Num((2 * x.n + x.d) \div (2 * x.d)) ELSE x
        ELSE statement[key]]

\* the mutant of ConvertStatement that divides by the rate
ConvertStatement_divides(statement, rate) ==
    [key \in DOMAIN statement |->
        IF TypeofNumber(statement[key]) /\ key \notin nonCurrencyFields
        THEN Div(statement[key], rate)
        ELSE statement[key]]

\* one statement converted at the given rate: index.ts lines 40 to 49
ConvertStatement(statement, rate) ==
    [key \in DOMAIN statement |->
        IF TypeofNumber(statement[key]) /\ key \notin nonCurrencyFields
        THEN Mul(statement[key], rate)
        ELSE statement[key]]

\* statements.map(...): the first date priceOn rejects throws out of the whole call
convertCurrencyInStatements(sts, fxRates) ==
    LET rate(i) == priceOn(sts[i].date.t, fxRates)
    IN  IF \E i \in 1..Len(sts) : rate(i).status = "throw"
        THEN rate(CHOOSE i \in 1..Len(sts) :
                    /\ rate(i).status = "throw"
                    /\ \A j \in 1..(i - 1) : rate(j).status = "return")
        ELSE Returned([i \in 1..Len(sts) |-> ConvertStatement(sts[i], rate(i).value)])

----------------------------------------------------------------------------
(* The currency normalizer on its own: the FX series of the pair is one of  *)
(* the series below (a rate that changes from day to day, a series that     *)
(* starts on the last period-end date only, an empty one).                  *)

FxRates == [d \in Periods |-> Frac(10 + d, 10)]
RateSeriesChoices == {SeriesFrom(1, FxRates), SeriesFrom(NumPeriods, FxRates), <<>>}

InitConvert ==
    /\ prices = <<>>
    /\ rates \in RateSeriesChoices
    /\ dataset \in [sh : 0..2, fl : 0..2, rev : {0}, ni : {0}]
    /\ statements = <<>>
    /\ call = NoCall
    /\ batch = NoBatch
    /\ api = NoApi

CallConvertCurrencyInStatements ==
    /\ call = NoCall
    /\ call' = [op |-> "convertCurrencyInStatements",
                out |-> convertCurrencyInStatements(statements, rates)]
    /\ UNCHANGED <<prices, rates, dataset, statements, batch, api>>

\* the series of the opposite pair, consistent with fxRates: on each date the
\* reciprocal of its rate
ReciprocalSeries(fxRates) ==
    [i \in 1..Len(fxRates) |->
        [date |-> fxRates[i].date, close |-> Div(Num(1), fxRates[i].close)]]

\* the converted series converted back with the series of the opposite pair
CallConvertBack ==
    /\ call.op = "convertCurrencyInStatements"
    /\ call.out.status = "return"
    /\ call' = [op |-> "convertBack",
                forward |-> call.out.value,
                out |-> convertCurrencyInStatements(call.out.value, ReciprocalSeries(rates))]
    /\ UNCHANGED <<prices, rates, dataset, statements, batch, api>>

(* The same call with the statements as objects: the heap is the sequence  *)
(* of the objects allocated so far, a reference is an index into it, and an *)
(* array is the sequence of the references it holds.                        *)

\* the mutant of Spread that hands back the statement itself instead of a copy
Spread_alias(heap, ref) == [heap |-> heap, ref |-> ref]

\* { ...statement }: a new object with the fields of the object at ref
Spread(heap, ref) == [heap |-> Append(heap, heap[ref]), ref |-> Len(heap) + 1]

RECURSIVE MapConvert(_, _, _, _, _)
\* statements.map(...) from element i on, with out the references returned so
\* far: the callback copies the statement and assigns the converted fields to
\* the copy
MapConvert(heap, refs, fxRates, i, out) ==
    IF i > Len(refs) THEN [status |-> "return", heap |-> heap, value |-> out]
    ELSE LET statement == heap[refs[i]]
             rate == priceOn(statement.date.t, fxRates)
             converted == Spread(heap, refs[i])
         IN  IF rate.status = "throw"
             THEN [status |-> "throw", heap |-> heap, error |-> rate.error]
             ELSE MapConvert(
                    [converted.heap EXCEPT
                        ![converted.ref] = ConvertStatement(statement, rate.value)],
                    refs, fxRates, i + 1, Append(out, converted.ref))

\* the statements received are the objects 1 to Len(statements) of the heap
CallConvertCurrencyInStatementsByReference ==
    /\ call = NoCall
    /\ LET refs == [i \in 1..Len(statements) |-> i]
       IN  call' = [op |-> "convertCurrencyInStatements (objects)",
                    input |-> refs,
                    out |-> MapConvert(statements, refs, rates, 1, <<>>)]
    /\ UNCHANGED <<prices, rates, dataset, statements, batch, api>>

NextConvert ==
    \/ \E d \in Periods : ReceiveStatement(d)
    \/ CallConvertCurrencyInStatements
    \/ CallConvertBack
    \/ CallConvertCurrencyInStatementsByReference

SpecConvert == InitConvert /\ [][NextConvert]_vars

----------------------------------------------------------------------------
(* getTTMStatistics *)

\* the mutant of CurrenciesDiffer that does not compare the two currencies
CurrenciesDiffer_notCompared(priceCurrency, statementCurrency) ==
    Truthy(priceCurrency) /\ Truthy(statementCurrency)

\* priceCurrency && statementCurrency && priceCurrency !== statementCurrency
CurrenciesDiffer(priceCurrency, statementCurrency) ==
    /\ Truthy(priceCurrency)
    /\ Truthy(statementCurrency)
    /\ priceCurrency # statementCurrency

\* the mutant of HasTTMInputs that gives up only when all three inputs are missing
HasTTMInputs_anyPresent(statement) ==
    \/ Truthy(OrElse(statement.basicAverageShares, statement.ordinarySharesNumber))
    \/ Truthy(statement.netIncome)
    \/ Truthy(statement.freeCashFlow)

\* the negation of the test of line 161
HasTTMInputs(statement) ==
    /\ Truthy(OrElse(statement.basicAverageShares, statement.ordinarySharesNumber))
    /\ Truthy(statement.netIncome)
    /\ Truthy(statement.freeCashFlow)

\* the trailing statement once the series is known not to be empty: index.ts
\* lines 157 to 178
TTMRecord(ttmStatements, ps) ==
    LET sorted == SortByDate(ttmStatements)
        statement == sorted[Len(sorted)]
        close == priceOn(statement.date.t, ps)
        sharesOutstanding ==
            OrElse(statement.basicAverageShares, statement.ordinarySharesNumber)
    IN  IF close.status = "throw" THEN close
        ELSE IF ~HasTTMInputs(statement) THEN Returned(Null)
        ELSE Returned(calculateValuationMetrics(
                [date |-> statement.date,
                 close |-> close.value,
                 sharesOutstanding |-> sharesOutstanding,
                 dilutedSharesOutstanding |->
                    OrElse(statement.dilutedAverageShares, sharesOutstanding),
                 netIncome |-> statement.netIncome,
                 freeCashFlow |-> statement.freeCashFlow,
                 stockBasedCompensation |-> OrElse(statement.stockBasedCompensation, Num(0)),
                 eps |-> statement.basicEPS,
                 totalCash |->
                    OrElse(statement.cashCashEquivalentsAndShortTermInvestments,
                           statement.cashAndCashEquivalents),
                 totalDebt |-> statement.totalDebt,
                 totalRevenue |-> statement.totalRevenue,
                 operatingIncome |-> statement.operatingIncome]))

getTTMStatistics(trailingStats, ps, priceCurrency, statementCurrency, fxRates) ==
    LET converted ==
            IF CurrenciesDiffer(priceCurrency, statementCurrency)
            THEN convertCurrencyInStatements(trailingStats, fxRates)
            ELSE Returned(trailingStats)
    IN  IF converted.status = "throw" THEN converted
        ELSE IF Len(converted.value) = 0 THEN Returned(Null)
        ELSE TTMRecord(converted.value, ps)

----------------------------------------------------------------------------
(* The trailing-twelve-month fallback on its own: the provider's trailing   *)
(* series has at most MaxTrailing statements, and the currencies of the     *)
(* quote and of the statements are any of the pairs below.                  *)

MaxTrailing == 2

CurrencyPairs ==
    {<<Str("USD"), Str("USD")>>, <<Str("USD"), Str("EUR")>>,
     <<Str("USD"), Null>>, <<Undef, Str("EUR")>>}

InitTTM ==
    /\ prices \in PriceSeriesChoices
    /\ rates \in {SeriesFrom(1, FxRates), <<>>}
    /\ dataset \in [sh : 0..8, fl : 0..2, rev : {0}, ni : {5}]
    /\ statements = <<>>
    /\ call = NoCall
    /\ batch = NoBatch
    /\ api = NoApi

ReceiveTrailingStatement(d) ==
    /\ Len(statements) < MaxTrailing
    /\ ReceiveStatement(d)

CallGetTTMStatistics(priceCurrency, statementCurrency) ==
    /\ call = NoCall
    /\ call' = [op |-> "getTTMStatistics",
                priceCurrency |-> priceCurrency,
                statementCurrency |-> statementCurrency,
                out |-> getTTMStatistics(statements, prices, priceCurrency,
                                         statementCurrency, rates)]
    /\ UNCHANGED <<prices, rates, dataset, statements, batch, api>>

NextTTM ==
    \/ \E d \in Periods : ReceiveTrailingStatement(d)
    \/ \E pair \in CurrencyPairs : CallGetTTMStatistics(pair[1], pair[2])

SpecTTM == InitTTM /\ [][NextTTM]_vars

----------------------------------------------------------------------------
(* fetchFromYahooFinance. The quote summary is the record of the fields the *)
(* computed part of the report reads: quoteType, currency, financialCurrency *)
(* (undefined when the summary has no financialData), regularMarketPrice    *)
(* and sharesOutstanding. The fields the report copies from the summary     *)
(* unchanged are left out. The outcome comes with the set of fetches made.  *)

\* obj?.field
Get(obj, field) == IF obj \in {Null, Undef} THEN Undef ELSE obj[field]

\* a && b ? a / b : null
RatioOrNull(a, b) == IF Truthy(a) /\ Truthy(b) THEN Div(a, b) ELSE Null

\* the mutant of ReportedMarketCap that reports the market cap of any instrument
ReportedMarketCap_anyQuoteType(quoteType, marketCap) == marketCap

\* index.ts line 288
ReportedMarketCap(quoteType, marketCap) ==
    IF quoteType = Str("EQUITY") THEN marketCap ELSE Undef

\* index.ts lines 257 to 329, once the periods and the growth rates are known
Report(quoteSummary, ps, thisPeriod, previousPeriod, annualGrowth, quarterlyGrowth) ==
    LET price == Coalesce(quoteSummary.regularMarketPrice, ps[Len(ps)].close)
        sharesOutstanding ==
            Coalesce(quoteSummary.sharesOutstanding, Get(thisPeriod, "sharesOutstanding"))
        marketCap == IF Truthy(sharesOutstanding) THEN Mul(price, sharesOutstanding) ELSE Undef
    IN  IF quoteSummary.regularMarketPrice \in {Null, Undef} /\ Len(ps) = 0
        THEN Thrown("TypeError: Cannot read properties of undefined")
        ELSE Returned(
            [info |-> [quoteType |-> quoteSummary.quoteType,
                       currency |-> quoteSummary.currency,
                       statementCurrency |-> quoteSummary.financialCurrency],
             keyStatistics |->
                [price |-> price,
                 sharesOutstanding |-> quoteSummary.sharesOutstanding,
                 marketCap |-> ReportedMarketCap(quoteSummary.quoteType, marketCap)],
             valuation |->
                [fcfYield |-> RatioOrNull(Get(thisPeriod, "freeCashFlow"), marketCap),
                 fcfYieldAdjusted |-> Coalesce(Get(thisPeriod, "fcfYieldAdjusted"), Null),
                 fcfPerShare |->
                    RatioOrNull(Get(thisPeriod, "freeCashFlow"), sharesOutstanding),
                 fcfPerShareAdjusted |->
                    Coalesce(Get(thisPeriod, "fcfPerShareAdjusted"), Null)],
             thisPeriod |-> thisPeriod,
             previousPeriod |-> previousPeriod,
             marginsAndGrowth |->
                [operatingMargin |->
                    RatioOrNull(Get(thisPeriod, "operatingIncome"),
                                Get(thisPeriod, "totalRevenue")),
                 profitMargin |->
                    RatioOrNull(Get(thisPeriod, "netIncome"), Get(thisPeriod, "totalRevenue")),
                 revenue |-> [annual |-> Get(annualGrowth, "revenue"),
                              quarterly |-> Get(quarterlyGrowth, "revenue")],
                 earnings |-> [annual |-> Get(annualGrowth, "earnings"),
                               quarterly |-> Get(quarterlyGrowth, "earnings")]]])

\* the mutant of PreviousQuarterStatements that does not drop the latest statement
PreviousQuarterStatements_latestKept(quarterlyStatements) ==
    TakeRight(SortByDate(quarterlyStatements), 4)

\* index.ts lines 242 to 246
PreviousQuarterStatements(quarterlyStatements) ==
    TakeRight(DropRight(SortByDate(quarterlyStatements), 1), 4)

\* the mutant of FallsBack that asks for the trailing statements of every equity
FallsBack_everyEquity(isEquity, trailingStatistics) == isEquity

\* !thisPeriod && quoteType === "EQUITY" (index.ts line 237)
FallsBack(isEquity, trailingStatistics) ==
    isEquity /\ trailingStatistics = Returned(Null)

\* annual, quarterly and trailing are what the provider holds for the symbol
fetchFromYahooFinance(quoteSummary, ps, annual, quarterly, trailing, fxRates) ==
    LET isEquity == quoteSummary.quoteType = Str("EQUITY")
        priceCurrency == quoteSummary.currency
        statementCurrency == quoteSummary.financialCurrency
        differ == CurrenciesDiffer(priceCurrency, statementCurrency)
        annualStatements ==
            IF differ
            THEN convertCurrencyInStatements(IF isEquity THEN annual ELSE <<>>, fxRates)
            ELSE Returned(IF isEquity THEN annual ELSE <<>>)
        quarterlyStatements ==
            IF differ
            THEN convertCurrencyInStatements(IF isEquity THEN quarterly ELSE <<>>, fxRates)
            ELSE Returned(IF isEquity THEN quarterly ELSE <<>>)
        converted == annualStatements.status = "return" /\ quarterlyStatements.status = "return"
        trailingStatistics ==
            IF isEquity THEN calculateTrailingStatistics(quarterlyStatements.value, ps)
            ELSE Returned(Null)
        fallsBack == FallsBack(isEquity, trailingStatistics)
        thisPeriod ==
            IF fallsBack
            THEN getTTMStatistics(trailing, ps, priceCurrency, statementCurrency, fxRates)
            ELSE trailingStatistics
        previousQuarterStatements == PreviousQuarterStatements(quarterlyStatements.value)
        previousPeriod ==
            IF ~isEquity \/ Len(previousQuarterStatements) < 4 THEN Returned(Null)
            ELSE calculateTrailingStatistics(previousQuarterStatements, ps)
        fetches ==
            {"fetchSummary", "fetchPrices"}
            \cup (IF isEquity THEN {"fetchAnnualStatements", "fetchQuarterlyStatements"}
                  ELSE {})
            \cup (IF differ THEN {"fetchPrices(pair)"} ELSE {})
            \cup (IF converted /\ fallsBack THEN {"fetchTrailingStats"} ELSE {})
        out ==
            IF annualStatements.status = "throw" THEN annualStatements
            ELSE IF quarterlyStatements.status = "throw" THEN quarterlyStatements
            ELSE IF thisPeriod.status = "throw" THEN thisPeriod
            ELSE IF previousPeriod.status = "throw" THEN previousPeriod
            ELSE Report(quoteSummary, ps, thisPeriod.value, previousPeriod.value,
                        calculateGrowth(annualStatements.value),
                        calculateGrowth(quarterlyStatements.value))
    IN  [out |-> out, fetches |-> fetches]

----------------------------------------------------------------------------
(* The report of one symbol: the provider's quarterly series is the series  *)
(* received, its annual series the whole data set in date order, and its    *)
(* trailing series the statement of the latest date.                        *)

QuoteSummaries ==
    [quoteType : {Str("EQUITY"), Str("ETF")},
     currency : {Str("USD")},
     financialCurrency : {Undef, Str("USD"), Str("EUR")},
     regularMarketPrice : {Undef, Num(50)},
     sharesOutstanding : {Undef, Num(2000)}]

AnnualStatements == [d \in Periods |-> ReportedStatement(dataset, d)]
TrailingStatements == <<ReportedStatement(dataset, NumPeriods)>>

\* a company whose latest quarters report no share count, and one that reports
\* all that the trailing, previous-period and fallback computations read
ReportDatasets ==
    {[sh |-> 3, fl |-> 0, rev |-> 0, ni |-> 0], [sh |-> 7, fl |-> 1, rev |-> 5, ni |-> 5]}

InitReport ==
    /\ prices \in {SeriesFrom(1, ClosePrices), <<>>}
    /\ rates = SeriesFrom(1, FxRates)
    /\ dataset \in ReportDatasets
    /\ statements = <<>>
    /\ call = NoCall
    /\ batch = NoBatch
    /\ api = NoApi

CallFetchFromYahooFinance(quoteSummary) ==
    /\ call = NoCall
    /\ LET result == fetchFromYahooFinance(quoteSummary, prices, AnnualStatements,
                                           statements, TrailingStatements, rates)
       IN  call' = [op |-> "fetchFromYahooFinance",
                    quoteSummary |-> quoteSummary,
                    out |-> result.out,
                    fetches |-> result.fetches]
    /\ UNCHANGED <<prices, rates, dataset, statements, batch, api>>

NextReport ==
    \/ \E d \in Periods : ReceiveStatement(d)
    \/ \E quoteSummary \in QuoteSummaries : CallFetchFromYahooFinance(quoteSummary)

SpecReport == InitReport /\ [][NextReport]_vars

----------------------------------------------------------------------------
(* processAndSaveParallel (main.ts): the symbols of the list are 1 to       *)
(* NumSymbols in list order. limit(...) of p-limit queues every symbol and  *)
(* runs the head of the queue while fewer than parallelism pipelines are    *)
(* active; a pipeline that settles, fulfilled or rejected, frees its slot.  *)
(* A pipeline is a chain of PipelineFetches awaited fetches, each of which  *)
(* completes in a turn of the event loop of its own. Promise.all fulfils    *)
(* when every pipeline has fulfilled and rejects with the first rejection.  *)
(* Nothing catches the rejection of processAndSaveParallel or of main(): it *)
(* is an unhandled rejection, which ends the process (the default mode,     *)
(* "throw", of Node.js 15 and later) or is only reported ("warn").          *)

NumSymbols == 3
MaxParallelism == 2
PipelineFetches == 2

Symbols == 1..NumSymbols
UnhandledRejectionModes == {"throw", "warn"}

InFlight(phase) == {s \in Symbols : phase[s] = "running"}

\* the mutant of CanStart that lets p-limit start a pipeline whatever is active
CanStart_unlimited(phase, parallelism) == TRUE

\* p-limit: activeCount < concurrency
CanStart(phase, parallelism) == Cardinality(InFlight(phase)) < parallelism

RECURSIVE StartQueued(_, _)
\* p-limit: the queued pipelines start in list order while a slot is free
StartQueued(phase, parallelism) ==
    LET queued == {s \in Symbols : phase[s] = "queued"}
    IN  IF queued = {} \/ ~CanStart(phase, parallelism) THEN phase
        ELSE StartQueued(
                [phase EXCEPT ![CHOOSE s \in queued : \A o \in queued : s <= o] = "running"],
                parallelism)

\* the mutant of PromiseAll that collects the values as the pipelines complete
PromiseAll_completionOrder(values, order) == [i \in 1..Len(order) |-> values[order[i]]]

\* Promise.all: the value of each promise is stored at the index its promise has
\* in the input, whenever it settles (order is the order of completion)
PromiseAll(values, order) == [i \in 1..NumSymbols |-> values[i]]

IdleBatch(mode) ==
    [state |-> "idle",
     unhandledRejections |-> mode,
     parallelism |-> 0,
     phase |-> [s \in Symbols |-> "queued"],
     fetched |-> [s \in Symbols |-> 0],
     counter |-> 0,
     order |-> <<>>,
     all |-> "pending",
     writer |-> "idle",
     results |-> <<>>,
     process |-> "running"]

InitBatch ==
    /\ prices = <<>>
    /\ rates = <<>>
    /\ dataset = NoDataset
    /\ statements = <<>>
    /\ call = NoCall
    /\ batch \in {IdleBatch(mode) : mode \in UnhandledRejectionModes}
    /\ api = NoApi

\* processAndSaveParallel(symbols, filepath, parallelism) up to its first await
CallProcessAndSaveParallel(parallelism) ==
    /\ batch.state = "idle"
    /\ batch' = [batch EXCEPT !.state = "called",
                              !.parallelism = parallelism,
                              !.phase = StartQueued(batch.phase, parallelism)]
    /\ UNCHANGED <<prices, rates, dataset, statements, call, api>>

\* a fetch of the pipeline of symbol s completes; the last one fulfils the
\* pipeline: counter++, the slot goes to the next queued symbol, and when it was
\* the last pipeline Promise.all fulfils and saveFlattenedResultsToCsv is called
FetchSucceeds(s) ==
    /\ batch.state = "called"
    /\ batch.process = "running"
    /\ batch.phase[s] = "running"
    /\ IF batch.fetched[s] + 1 < PipelineFetches
       THEN batch' = [batch EXCEPT !.fetched[s] = @ + 1]
       ELSE LET settled == [batch.phase EXCEPT ![s] = "done"]
                allDone == \A o \in Symbols : settled[o] = "done"
                order == Append(batch.order, s)
            IN  batch' = [batch EXCEPT
                    !.fetched[s] = @ + 1,
                    !.counter = @ + 1,
                    !.order = order,
                    !.phase = StartQueued(settled, batch.parallelism),
                    !.all = IF allDone THEN "fulfilled" ELSE @,
                    !.writer = IF allDone THEN "writing" ELSE @,
                    !.results = IF allDone
                                THEN PromiseAll([o \in Symbols |-> o], order)
                                ELSE @]
    /\ UNCHANGED <<prices, rates, dataset, statements, call, api>>

\* the pipeline of symbol s throws (a fetch out of retries, an error of the
\* engine): the first rejection rejects Promise.all, processAndSaveParallel and
\* main(), and under "throw" the unhandled rejection ends the process
PipelineFails(s) ==
    /\ batch.state = "called"
    /\ batch.process = "running"
    /\ batch.phase[s] = "running"
    /\ LET settled == [batch.phase EXCEPT ![s] = "failed"]
           exits == batch.all = "pending" /\ batch.unhandledRejections = "throw"
       IN  batch' = [batch EXCEPT
               !.phase = IF exits THEN settled
                         ELSE StartQueued(settled, batch.parallelism),
               !.all = IF @ = "pending" THEN "rejected" ELSE @,
               !.process = IF exits THEN "exited" ELSE @]
    /\ UNCHANGED <<prices, rates, dataset, statements, call, api>>

\* saveToCsv completes: processAndSaveParallel returns the results
SaveCompletes ==
    /\ batch.state = "called"
    /\ batch.process = "running"
    /\ batch.writer = "writing"
    /\ batch' = [batch EXCEPT !.writer = "written", !.state = "returned"]
    /\ UNCHANGED <<prices, rates, dataset, statements, call, api>>

NextBatch ==
    \/ \E parallelism \in 1..MaxParallelism : CallProcessAndSaveParallel(parallelism)
    \/ \E s \in Symbols : FetchSucceeds(s)
    \/ \E s \in Symbols : PipelineFails(s)
    \/ SaveCompletes

SpecBatch == InitBatch /\ [][NextBatch]_vars

\* every fetch in flight completes, one way or the other (withRetries gives up
\* after its retries), and so does the write of the file
SpecBatchFair ==
    /\ SpecBatch
    /\ \A s \in Symbols : WF_vars(FetchSucceeds(s) \/ PipelineFails(s))
    /\ WF_vars(SaveCompletes)

----------------------------------------------------------------------------
(* The fetch layer (api): callers call fetchPrices(key), which is           *)
(* withRetries over the memoized __fetchPrices, or fetchSummary(key), which *)
(* is withRetries over __fetchSummary; both wrap the provider request in    *)
(* withLibraryLoggingSuppressed. JavaScript runs one turn of the event loop *)
(* at a time: a call runs up to its first await in one step, and a provider *)
(* response or a timer runs every continuation it makes runnable in one     *)
(* step. A promise that is already settled continues its awaiter within the *)
(* same turn.                                                               *)

NumCallers == 2
DefaultRetries == 5
DefaultDelay == 2000

Callers == 1..NumCallers
Keys == {"AAPL", "EURUSD=X"}
\* the calls a caller can make: the chart of a symbol or of an FX pair, or the
\* quote summary of a symbol
Fetches ==
    {<<"fetchPrices", "AAPL">>, <<"fetchPrices", "EURUSD=X">>, <<"fetchSummary", "AAPL">>}

\* an error is its code and its message, the message a sequence of phrases
NoError == [code |-> 0, message |-> <<>>]
\* what a provider request can fail with
ProviderErrors ==
    {[code |-> 429, message |-> <<"rate limited">>],
     [code |-> 0, message |-> <<"HTTPError:", "Too Many Requests">>],
     [code |-> 404, message |-> <<"Not Found">>]}

\* error?.code === 429 || error?.message?.includes("Too Many Requests")
IsRateLimit(error) ==
    \/ error.code = 429
    \/ \E i \in 1..Len(error.message) : error.message[i] = "Too Many Requests"

IdleCaller ==
    [state |-> "idle", method |-> "none", key |-> "none",
     retries |-> 0, delay |-> 0, attempts |-> 0, error |-> NoError]

IdleApi ==
    [state |-> "running",
     cache |-> [key \in Keys |-> [status |-> "none", error |-> NoError]],
     requests |-> [key \in Keys |-> 0],
     callers |-> [c \in Callers |-> IdleCaller],
     yahooLogSuppressCount |-> 0,
     consoleLog |-> "original",
     originalConsoleLog |-> "null"]

\* the mutant of EnterSuppressed that saves console.log whatever the count
EnterSuppressed_alwaysSaves(a) ==
    [a EXCEPT !.originalConsoleLog = a.consoleLog,
              !.consoleLog = "wrapper",
              !.yahooLogSuppressCount = @ + 1]

\* withLibraryLoggingSuppressed up to the call of fn: part_002 lines 14 to 23
EnterSuppressed(a) ==
    IF a.yahooLogSuppressCount = 0
    THEN [a EXCEPT !.originalConsoleLog = a.consoleLog,
                   !.consoleLog = "wrapper",
                   !.yahooLogSuppressCount = @ + 1]
    ELSE [a EXCEPT !.yahooLogSuppressCount = @ + 1]

\* the finally block of withLibraryLoggingSuppressed: part_002 lines 27 to 31
LeaveSuppressed(a) ==
    IF a.yahooLogSuppressCount - 1 = 0 /\ a.originalConsoleLog # "null"
    THEN [a EXCEPT !.yahooLogSuppressCount = @ - 1,
                   !.consoleLog = a.originalConsoleLog,
                   !.originalConsoleLog = "null"]
    ELSE [a EXCEPT !.yahooLogSuppressCount = @ - 1]

\* the mutant of ShouldRetry that retries whatever the error
ShouldRetry_anyError(retries, error) == retries > 0

\* retries > 0 && (rate limited): part_002 line 151
ShouldRetry(retries, error) == retries > 0 /\ IsRateLimit(error)

\* the catch block of withRetries for the caller record: wait for the delay
\* or rethrow
Caught(caller, error) ==
    IF ShouldRetry(caller.retries, error)
    THEN [caller EXCEPT !.state = "waiting", !.error = error]
    ELSE [caller EXCEPT !.state = "thrown", !.error = error]

\* the mutant of CacheHas that never finds the key
CacheHas_never(cache, key) == FALSE

\* cache.has(arg): part_003 line 11
CacheHas(cache, key) == cache[key].status # "none"

\* fn() of withRetries, awaited by caller c (part_002 line 149): __fetchPrices
\* answers from the cache of memoize when it has the key and asks the provider
\* otherwise; __fetchSummary always asks the provider
Attempt(a, c) ==
    LET caller == a.callers[c]
        key == caller.key
    IN  IF caller.method = "fetchSummary"
        THEN [EnterSuppressed(a) EXCEPT !.callers[c].state = "attempting"]
        ELSE IF ~CacheHas(a.cache, key)
        THEN [EnterSuppressed(a) EXCEPT
                !.requests[key] = @ + 1,
                !.cache[key] = [status |-> "pending", error |-> NoError],
                !.callers[c].state = "attempting"]
        ELSE IF a.cache[key].status = "pending"
        THEN [a EXCEPT !.callers[c].state = "attempting"]
        ELSE IF a.cache[key].status = "fulfilled"
        THEN [a EXCEPT !.callers[c].state = "returned"]
        ELSE [a EXCEPT !.callers[c] = Caught(caller, a.cache[key].error)]

InitApi ==
    /\ prices = <<>>
    /\ rates = <<>>
    /\ dataset = NoDataset
    /\ statements = <<>>
    /\ call = NoCall
    /\ batch = NoBatch
    /\ api = IdleApi

\* caller c calls fetchPrices(key) or fetchSummary(key): withRetries with its
\* default retries and delay, up to its first await
CallFetch(c, method, key) ==
    /\ api.callers[c].state = "idle"
    /\ api' = Attempt([api EXCEPT !.callers[c] =
                         [state |-> "idle", method |-> method, key |-> key,
                          retries |-> DefaultRetries, delay |-> DefaultDelay,
                          attempts |-> 1, error |-> NoError]], c)
    /\ UNCHANGED <<prices, rates, dataset, statements, call, batch>>

\* the timer of the delay of caller c fires:
\* withRetries(fn, symbol, methodName, retries - 1, delay * 2)
TimerFires(c) ==
    /\ api.callers[c].state = "waiting"
    /\ api' = Attempt([api EXCEPT !.callers[c].retries = @ - 1,
                                  !.callers[c].delay = @ * 2,
                                  !.callers[c].attempts = @ + 1], c)
    /\ UNCHANGED <<prices, rates, dataset, statements, call, batch>>

\* the provider answers the chart request of key, with NoError for data: the
\* logging wrapper is left, the cached promise settles and every caller that
\* awaits it returns or catches
ChartResponds(key, error) ==
    /\ api.cache[key].status = "pending"
    /\ LET left == LeaveSuppressed(api)
           awaits(c) == /\ api.callers[c].state = "attempting"
                        /\ api.callers[c].method = "fetchPrices"
                        /\ api.callers[c].key = key
       IN  api' = [left EXCEPT
               !.cache[key] =
                   [status |-> IF error = NoError THEN "fulfilled" ELSE "rejected",
                    error |-> error],
               !.callers = [c \in Callers |->
                   IF ~awaits(c) THEN api.callers[c]
                   ELSE IF error = NoError
                   THEN [api.callers[c] EXCEPT !.state = "returned"]
                   ELSE Caught(api.callers[c], error)]]
    /\ UNCHANGED <<prices, rates, dataset, statements, call, batch>>

\* the provider answers the quoteSummary request of caller c
SummaryResponds(c, error) ==
    /\ api.callers[c].state = "attempting"
    /\ api.callers[c].method = "fetchSummary"
    /\ api' = [LeaveSuppressed(api) EXCEPT
                 !.callers[c] =
                     IF error = NoError
                     THEN [api.callers[c] EXCEPT !.state = "returned"]
                     ELSE Caught(api.callers[c], error)]
    /\ UNCHANGED <<prices, rates, dataset, statements, call, batch>>

NextApi ==
    \/ \E c \in Callers, fetch \in Fetches : CallFetch(c, fetch[1], fetch[2])
    \/ \E c \in Callers : TimerFires(c)
    \/ \E key \in Keys, error \in ProviderErrors \cup {NoError} : ChartResponds(key, error)
    \/ \E c \in Callers, error \in ProviderErrors \cup {NoError} : SummaryResponds(c, error)

SpecApi == InitApi /\ [][NextApi]_vars

\* the provider answers every request, one way or the other, and every timer fires
SpecApiFair ==
    /\ SpecApi
    /\ \A c \in Callers : WF_vars(TimerFires(c))
    /\ \A key \in Keys : WF_vars(\E error \in ProviderErrors \cup {NoError} :
                                    ChartResponds(key, error))
    /\ \A c \in Callers : WF_vars(\E error \in ProviderErrors \cup {NoError} :
                                    SummaryResponds(c, error))

----------------------------------------------------------------------------
(* Properties of the price resolver (SpecPrice) *)

PriceOnCalled == call.op = "priceOn"

\* the points of the series on the target's calendar day or an earlier one
OnOrBefore(date) == {i \in 1..Len(prices) : DayOf(prices[i].date) <= DayOf(date)}

\* C1: when the target date D is on or after the earliest day of the series,
\* priceOn(D) returns the close of a point dated on D's calendar day or earlier
\* that no other such point is later than, whatever the order of the series.
C1_PriceOnLatestOnOrBefore ==
    (PriceOnCalled /\ OnOrBefore(call.date) # {}) =>
        /\ call.out.status = "return"
        /\ \E i \in OnOrBefore(call.date) :
              /\ call.out.value = prices[i].close
              /\ \A j \in OnOrBefore(call.date) : prices[j].date <= prices[i].date

\* an unsorted series with a later point left out and two candidates with different closes
C1_Witness ==
    /\ PriceOnCalled
    /\ call.out.status = "return"
    /\ Len(prices) = 3
    /\ prices[1].date > call.date /\ ~HasSameDay(prices[1].date, call.date)
    /\ prices[2].date > prices[3].date
    /\ prices[2].date <= call.date
    /\ prices[2].close # prices[3].close
    /\ call.out.value = prices[2].close

\* C2: with a non-empty series, a target date whose calendar day is before the
\* day of every point makes priceOn throw: no price is returned.
C2_PriceOnBeforeEarliestThrows ==
    (PriceOnCalled /\ Len(prices) > 0 /\ OnOrBefore(call.date) = {}) =>
        call.out.status = "throw"

C2_Witness ==
    /\ PriceOnCalled
    /\ Len(prices) = 2
    /\ OnOrBefore(call.date) = {}
    /\ call.out.status = "throw"

\* C3: priceOn called with an empty price series fails with the
\* date-out-of-range error instead of returning a value.
C3_PriceOnEmptySeriesThrows ==
    (PriceOnCalled /\ Len(prices) = 0) => call.out.status = "throw"

----------------------------------------------------------------------------
(* Properties of the valuation calculator (SpecValuation) *)

ValuationCalled == call.op = "calculateValuationMetrics"

\* C6: calculateValuationMetrics returns pe = null when eps is 0, and
\* fcfYield = fcfPerShare = null when freeCashFlow is 0 or absent.
C6_ZeroEpsAndFcfGiveNull ==
    ValuationCalled =>
        /\ call.input.eps = Num(0) => call.out.value.pe = Null
        /\ call.input.freeCashFlow \in {Num(0), Undef} =>
              /\ call.out.value.fcfYield = Null
              /\ call.out.value.fcfPerShare = Null

\* eps = 0 and freeCashFlow = 0 with a price and a share count that would divide
C6_Witness ==
    /\ ValuationCalled
    /\ call.input.eps = Num(0)
    /\ call.input.freeCashFlow = Num(0)
    /\ call.input.close = Num(20)
    /\ call.input.sharesOutstanding = Num(1000)
    /\ call.out.value.pe = Null
    /\ call.out.value.fcfYield = Null
    /\ call.out.value.marketCap = Num(20000)

DerivedMetrics ==
    {"marketCap", "dilutedMarketCap", "pe", "fcfYield", "fcfYieldAdjusted",
     "fcfPerShare", "fcfPerShareAdjusted"}

\* C7: every derived metric calculateValuationMetrics returns is null or a
\* finite number: never NaN and never the quotient of a division by zero.
C7_DerivedMetricsNullOrFinite ==
    ValuationCalled =>
        \A m \in DerivedMetrics :
            call.out.value[m] = Null \/ IsFinite(call.out.value[m])

----------------------------------------------------------------------------
(* Properties of the trailing window aggregator (SpecTrailing) *)

TrailingCalled == call.op = "calculateTrailingStatistics"

\* the statements of the series that are not among the 4 with the latest dates
OlderStatements ==
    {i \in 1..Len(statements) :
        Cardinality({j \in 1..Len(statements) :
                        statements[j].date.t > statements[i].date.t}) >= 4}

\* the latest-dated statement of the series
LatestStatement ==
    statements[CHOOSE i \in 1..Len(statements) :
                  \A j \in 1..Len(statements) : statements[j].date.t <= statements[i].date.t]

RemoveAt(s, i) == SubSeq(s, 1, i - 1) \o SubSeq(s, i + 1, Len(s))

\* other statements the provider could have reported for the date of statement i
Restated(i) ==
    {ReportedStatement([dataset EXCEPT !.sh = (@ + k) % 9, !.fl = (@ + 1) % 3, !.ni = k],
                       statements[i].date.t \div TicksPerDay) : k \in {1, 4}}

\* C4: calculateTrailingStatistics returns null on fewer than 4 statements; on
\* 4 or more, in any order, removing or changing a statement that is not one
\* of the 4 latest-dated leaves the result unchanged.
C4_TrailingUsesLatestFour ==
    TrailingCalled =>
        /\ Len(statements) < 4 => call.out = Returned(Null)
        /\ Len(statements) >= 4 =>
              /\ call.out # Returned(Null)
              /\ \A i \in OlderStatements :
                    /\ Len(statements) > 4 =>
                          calculateTrailingStatistics(RemoveAt(statements, i), prices)
                              = call.out
                    /\ \A st \in Restated(i) :
                          /\ st # statements[i]
                          /\ calculateTrailingStatistics(
                                [statements EXCEPT ![i] = st], prices) = call.out

\* five statements, the oldest arrived last and the latest first, and a record returned
C4_Witness ==
    /\ TrailingCalled
    /\ Len(statements) = 5
    /\ OlderStatements = {5}
    /\ statements[1] = LatestStatement
    /\ call.out.status = "return"
    /\ call.out.value # Null
    /\ call.out.value.date = statements[1].date
    /\ Truthy(statements[5].totalRevenue)
    /\ Truthy(statements[5].freeCashFlow)

SharesNotFound == Thrown("Shares outstanding not found")

\* C5: with at least 4 statements, shares outstanding is the latest
\* statement's basicAverageShares when present and non-zero and otherwise its
\* ordinarySharesNumber, and the call fails with "Shares outstanding not
\* found" exactly when both are absent or zero.
C5_SharesFallbackAndFailure ==
    (TrailingCalled /\ Len(statements) >= 4) =>
        LET basic == LatestStatement.basicAverageShares
            ordinary == LatestStatement.ordinarySharesNumber
        IN  /\ call.out = SharesNotFound <=> (~Truthy(basic) /\ ~Truthy(ordinary))
            /\ call.out.status = "return" =>
                  call.out.value.sharesOutstanding = OrElse(basic, ordinary)

----------------------------------------------------------------------------
(* Properties of the growth calculator (SpecGrowth) *)

GrowthCalled == call.op = "calculateGrowth"

\* the earliest of the 4 latest-dated statements of the series
WindowStart ==
    statements[CHOOSE i \in 1..Len(statements) :
                  Cardinality({j \in 1..Len(statements) :
                                  statements[j].date.t > statements[i].date.t}) = 3]

\* missing, zero or negative
NotPositive(v) == v \in {Undef, Null} \/ (v.k = "number" /\ v.n <= 0)

\* C8: with at least 4 periods the rate of a metric is null whenever its start
\* or end value in the window is missing, zero or negative, and each metric is
\* decided by its own endpoints alone: the other metric's null does not null it.
C8_GrowthSignPolicy ==
    (GrowthCalled /\ Len(statements) >= 4) =>
        LET g == call.out.value
            revenueBad == NotPositive(WindowStart.totalRevenue)
                          \/ NotPositive(LatestStatement.totalRevenue)
            earningsBad == NotPositive(WindowStart.netIncome)
                           \/ NotPositive(LatestStatement.netIncome)
        IN  /\ g # Null
            /\ (g.revenue = Null) <=> revenueBad
            /\ (g.earnings = Null) <=> earningsBad

\* revenue undefined across a sign change while earnings has a rate
C8_Witness ==
    /\ GrowthCalled
    /\ Len(statements) >= 4
    /\ WindowStart.totalRevenue = Num(1331)
    /\ LatestStatement.totalRevenue = Num(-500)
    /\ call.out.value.revenue = Null
    /\ call.out.value.earnings # Null

\* (1 + r)^3 for a rate r, where it is a rational number
CubeOfOnePlus(r) ==
    CASE r.k = "number" -> Frac(IntPow(r.n + r.d, 3), IntPow(r.d, 3))
      [] r.k = "surd" /\ r.q = 3 /\ r.p = -1 -> Frac(r.n, r.d)
      [] OTHER -> NaN

\* C9: calculateGrowth returns null on fewer than 4 periods; on 4 or more, in
\* any order, a rate r it returns spans 3 intervals between the earliest and
\* the latest of the 4 latest-dated periods: (1 + r)^3 = end / start.
C9_GrowthIsThreeIntervalCagr ==
    GrowthCalled =>
        /\ Len(statements) < 4 => call.out.value = Null
        /\ Len(statements) >= 4 =>
              LET g == call.out.value
              IN  /\ g # Null
                  /\ g.revenue # Null =>
                        CubeOfOnePlus(g.revenue) =
                            Div(LatestStatement.totalRevenue, WindowStart.totalRevenue)
                  /\ g.earnings # Null =>
                        CubeOfOnePlus(g.earnings) =
                            Div(LatestStatement.netIncome, WindowStart.netIncome)

\* the example of the specification: revenue 1000 -> 1331 gives 0.10, out of 5 periods
C9_Witness ==
    /\ GrowthCalled
    /\ Len(statements) = 5
    /\ statements[1] = LatestStatement
    /\ WindowStart.totalRevenue = Num(1000)
    /\ LatestStatement.totalRevenue = Num(1331)
    /\ call.out.value.revenue = Frac(1, 10)

----------------------------------------------------------------------------
(* Properties of the currency normalizer (SpecConvert) *)

ConvertCalled == call.op = "convertCurrencyInStatements"

\* the fields the conversion must pass through
NonMonetaryFields ==
    {"date", "periodType", "TYPE", "basicAverageShares", "dilutedAverageShares",
     "ordinarySharesNumber", "shareIssued", "taxRateForCalcs"}

IsNumeric(v) == v.k \in {"number", "NaN", "Infinity", "surd"}

\* C10: every statement convertCurrencyInStatements returns has the date,
\* periodType, TYPE, basicAverageShares, dilutedAverageShares,
\* ordinarySharesNumber, shareIssued and taxRateForCalcs of the input statement
\* at the same position, and every non-numeric field unchanged.
C10_ConversionKeepsNonMonetaryFields ==
    (ConvertCalled /\ call.out.status = "return") =>
        /\ Len(call.out.value) = Len(statements)
        /\ \A i \in 1..Len(statements) :
              /\ DOMAIN call.out.value[i] = DOMAIN statements[i]
              /\ \A key \in DOMAIN statements[i] :
                    (key \in NonMonetaryFields \/ ~IsNumeric(statements[i][key])) =>
                        call.out.value[i][key] = statements[i][key]

\* a statement with share counts converted at a rate other than 1
C10_Witness ==
    /\ ConvertCalled
    /\ call.out.status = "return"
    /\ Len(statements) >= 2
    /\ \E i \in 1..Len(statements) :
          /\ Truthy(statements[i].basicAverageShares)
          /\ Truthy(statements[i].dilutedAverageShares)
          /\ Truthy(statements[i].freeCashFlow)
          /\ call.out.value[i].freeCashFlow # statements[i].freeCashFlow
          /\ call.out.value[i].basicAverageShares = statements[i].basicAverageShares

\* the rate of the FX series in force at instant t: the close of its latest
\* point on the day of t or earlier, undefined when it has none
RateAt(t) ==
    LET candidates == {i \in 1..Len(rates) : DayOf(rates[i].date) <= DayOf(t)}
    IN  IF candidates = {} THEN Undef
        ELSE rates[CHOOSE i \in candidates :
                      \A j \in candidates : rates[j].date <= rates[i].date].close

\* C11: convertCurrencyInStatements returns one statement per input statement,
\* in the same order, in which every numeric field outside the non-monetary
\* set is the input value times the rate priceOn resolves at the statement's date.
C11_ConversionMultipliesMonetaryFields ==
    (ConvertCalled /\ call.out.status = "return") =>
        /\ Len(call.out.value) = Len(statements)
        /\ \A i \in 1..Len(statements) :
              /\ call.out.value[i].date = statements[i].date
              /\ \A key \in DOMAIN statements[i] :
                    (IsNumeric(statements[i][key]) /\ key \notin NonMonetaryFields) =>
                        call.out.value[i][key] =
                            Mul(statements[i][key], RateAt(statements[i].date.t))

\* two statements in descending date order converted at two different rates
C11_Witness ==
    /\ ConvertCalled
    /\ call.out.status = "return"
    /\ Len(statements) = 2
    /\ statements[1].date.t > statements[2].date.t
    /\ RateAt(statements[1].date.t) # RateAt(statements[2].date.t)
    /\ statements[1].freeCashFlow = Num(150)
    /\ call.out.value[1].freeCashFlow = Num(195)
    /\ Truthy(statements[2].totalRevenue)
    /\ call.out.value[2].totalRevenue # statements[2].totalRevenue

ConvertedBack == call.op = "convertBack"

\* C12: a series converted from A to B and back from B to A, with the B to A
\* rate of each date the reciprocal of the A to B rate, has the monetary values
\* of the original series (in real arithmetic).
C12_ConversionRoundTrip ==
    (ConvertedBack /\ Len(rates) > 0) =>
        /\ call.out.status = "return"
        /\ Len(call.out.value) = Len(statements)
        /\ \A i \in 1..Len(statements) :
              \A key \in DOMAIN statements[i] :
                  call.out.value[i][key] = statements[i][key]

\* a round trip through a rate that is not a whole number, with amounts changed on the way
C12_Witness ==
    /\ ConvertedBack
    /\ Len(statements) = 2
    /\ \A i \in 1..2 :
          /\ RateAt(statements[i].date.t) \notin {Undef, Num(1)}
          /\ Truthy(statements[i].totalRevenue)
          /\ call.forward[i].totalRevenue # statements[i].totalRevenue
          /\ call.out.value[i].totalRevenue = statements[i].totalRevenue
    /\ call.forward[1].freeCashFlow = Num(195)
    /\ call.out.value[1].freeCashFlow = Num(150)

TTMCalled == call.op = "getTTMStatistics"

\* the trailing series getTTMStatistics works on: converted when the currencies differ
TTMStatements ==
    IF CurrenciesDiffer(call.priceCurrency, call.statementCurrency)
    THEN convertCurrencyInStatements(statements, rates).value
    ELSE statements

\* the latest-dated statement of that series
TTMLatest ==
    CHOOSE st \in {TTMStatements[i] : i \in 1..Len(TTMStatements)} :
        \A i \in 1..Len(TTMStatements) : TTMStatements[i].date.t <= st.date.t

TTMShares == OrElse(TTMLatest.basicAverageShares, TTMLatest.ordinarySharesNumber)

\* C13 as stated: getTTMStatistics returns null exactly when the trailing series
\* is empty or shares outstanding, netIncome and freeCashFlow of the latest
\* statement are all missing, and a record in every other case.
C13_NullExactlyWhenAllMissing ==
    (TTMCalled /\ call.out.status = "return") =>
        (call.out.value = Null <=>
            \/ Len(statements) = 0
            \/ /\ ~Truthy(TTMShares)
               /\ ~Truthy(TTMLatest.netIncome)
               /\ ~Truthy(TTMLatest.freeCashFlow))

\* C13 amended: when getTTMStatistics returns, it returns null exactly when the
\* trailing series is empty or at least one of shares outstanding, netIncome and
\* freeCashFlow of the latest statement (after conversion) is missing, zero or
\* NaN, and a valuation record otherwise; it throws exactly when the conversion
\* or priceOn at the latest statement's date throws.
C13_NullWhenAnyMissing ==
    TTMCalled =>
        LET conversion ==
                IF CurrenciesDiffer(call.priceCurrency, call.statementCurrency)
                THEN convertCurrencyInStatements(statements, rates)
                ELSE Returned(statements)
        IN  IF conversion.status = "throw" THEN call.out = conversion
            ELSE IF Len(statements) = 0 THEN call.out = Returned(Null)
            ELSE IF priceOn(TTMLatest.date.t, prices).status = "throw"
                 THEN call.out = priceOn(TTMLatest.date.t, prices)
            ELSE /\ call.out.status = "return"
                 /\ call.out.value = Null <=>
                        \/ ~Truthy(TTMShares)
                        \/ ~Truthy(TTMLatest.netIncome)
                        \/ ~Truthy(TTMLatest.freeCashFlow)
                 /\ call.out.value # Null =>
                        /\ call.out.value.date = TTMLatest.date
                        /\ call.out.value.netIncome = TTMLatest.netIncome
                        /\ call.out.value.sharesOutstanding = TTMShares

\* null although shares outstanding and freeCashFlow are reported: only netIncome is missing
C13_Witness ==
    /\ TTMCalled
    /\ Len(statements) = 2
    /\ statements[1].date.t > statements[2].date.t
    /\ call.out = Returned(Null)
    /\ TTMLatest = statements[1]
    /\ Truthy(TTMShares)
    /\ Truthy(TTMLatest.freeCashFlow)
    /\ TTMLatest.netIncome = Undef
    /\ Truthy(statements[2].netIncome)

BatchCalled == batch.state # "idle"
SomeFailed == \E s \in Symbols : batch.phase[s] = "failed"
Settled(s) == batch.phase[s] \in {"done", "failed"}

\* C14: when the pipeline of one symbol fails, the pipelines of the other
\* symbols still run to completion, every outcome is collected, and the batch
\* writer runs with the results of the symbols that succeeded.
C14_FailureDoesNotAbortBatch ==
    SomeFailed ~>
        /\ \A s \in Symbols : Settled(s)
        /\ batch.writer = "written"
        /\ {batch.results[i] : i \in 1..Len(batch.results)} =
               {s \in Symbols : batch.phase[s] = "done"}

\* C15: at most parallelism pipelines are in flight in every reachable state,
\* and once the batch is called every symbol is eventually started unless a
\* pipeline fails.
C15_BoundedParallelism ==
    /\ [](BatchCalled => Cardinality(InFlight(batch.phase)) <= batch.parallelism)
    /\ BatchCalled ~> (SomeFailed \/ \A s \in Symbols : batch.phase[s] # "queued")

\* the limiter at work: a full pool with a symbol still waiting for a slot that
\* a sibling has already freed once
C15_Witness ==
    /\ BatchCalled
    /\ ~SomeFailed
    /\ Cardinality(InFlight(batch.phase)) = batch.parallelism
    /\ batch.parallelism = 2
    /\ batch.phase[1] = "done"
    /\ batch.phase[3] = "running"
    /\ batch.fetched[2] = 1

ReportCalled == call.op = "fetchFromYahooFinance"
StatementFetches == {"fetchAnnualStatements", "fetchQuarterlyStatements", "fetchTrailingStats"}

\* C16: for a quoteType other than EQUITY, fetchFromYahooFinance fetches no
\* annual, quarterly or trailing statements, fails with no error of the
\* statement computations, and its report has thisPeriod and previousPeriod
\* null, no computed growth rate and an undefined market cap.
C16_NonEquitySkipsStatements ==
    (ReportCalled /\ call.quoteSummary.quoteType # Str("EQUITY")) =>
        /\ call.fetches \cap StatementFetches = {}
        /\ call.out.status = "throw" =>
              /\ call.out.error = "TypeError: Cannot read properties of undefined"
              /\ Len(prices) = 0
        /\ call.out.status = "return" =>
              /\ call.out.value.thisPeriod = Null
              /\ call.out.value.previousPeriod = Null
              /\ call.out.value.marginsAndGrowth.revenue =
                    [annual |-> Undef, quarterly |-> Undef]
              /\ call.out.value.marginsAndGrowth.earnings =
                    [annual |-> Undef, quarterly |-> Undef]
              /\ call.out.value.keyStatistics.marketCap = Undef

\* a fund with a share count and statements on offer in another currency
C16_Witness ==
    /\ ReportCalled
    /\ call.quoteSummary.quoteType = Str("ETF")
    /\ call.quoteSummary.sharesOutstanding = Num(2000)
    /\ call.quoteSummary.financialCurrency = Str("EUR")
    /\ Len(statements) = NumPeriods
    /\ call.out.status = "return"
    /\ call.out.value.keyStatistics.price = Num(50)
    /\ call.out.value.keyStatistics.marketCap = Undef

\* the trailing window of the report throws for lack of shares outstanding
TrailingSharesNotFound ==
    /\ ReportCalled
    /\ call.quoteSummary.quoteType = Str("EQUITY")
    /\ Len(statements) >= 4
    /\ calculateTrailingStatistics(statements, prices) =
          Thrown("Shares outstanding not found")

\* C17: when calculateTrailingStatistics fails with the missing-shares error for
\* an EQUITY symbol, fetchFromYahooFinance still returns a report, whose
\* thisPeriod comes from getTTMStatistics or is null.
C17_MissingSharesDoesNotFailPipeline ==
    TrailingSharesNotFound =>
        /\ call.out.status = "return"
        /\ \/ call.out.value.thisPeriod = Null
           \/ "fetchTrailingStats" \in call.fetches

ConvertedByReference == call.op = "convertCurrencyInStatements (objects)"

\* C18: after convertCurrencyInStatements every input statement object holds the
\* field values it held before, the input array holds the same objects, and the
\* returned statements are objects of their own, distinct from the inputs and
\* from one another.
C18_ConversionLeavesInputUntouched ==
    ConvertedByReference =>
        /\ call.input = [i \in 1..Len(statements) |-> i]
        /\ \A i \in 1..Len(statements) : call.out.heap[call.input[i]] = statements[i]
        /\ call.out.status = "return" =>
              /\ Len(call.out.value) = Len(call.input)
              /\ \A i \in 1..Len(call.out.value) :
                    /\ call.out.value[i] \notin {call.input[j] : j \in 1..Len(call.input)}
                    /\ \A j \in 1..Len(call.out.value) :
                          call.out.value[i] = call.out.value[j] => i = j
                    /\ call.out.heap[call.out.value[i]] =
                          convertCurrencyInStatements(statements, rates).value[i]

\* two statements converted at a rate other than 1: the copies differ from the inputs
C18_Witness ==
    /\ ConvertedByReference
    /\ call.out.status = "return"
    /\ Len(statements) = 2
    /\ \A i \in 1..2 :
          /\ Truthy(statements[i].totalRevenue)
          /\ call.out.heap[call.out.value[i]].totalRevenue # statements[i].totalRevenue
          /\ call.out.heap[call.input[i]].totalRevenue = statements[i].totalRevenue

\* the statement of the series with exactly r - 1 statements dated after it
Ranked(r) ==
    statements[CHOOSE i \in 1..Len(statements) :
                  Cardinality({j \in 1..Len(statements) :
                                  statements[j].date.t > statements[i].date.t}) = r - 1]

\* what a period adds to eps
EpsShare(st, shares) ==
    IF Truthy(st.netIncome) THEN Div(st.netIncome, shares) ELSE Num(0)

\* C19: eps of calculateTrailingStatistics is the sum over the 4 window periods
\* of netIncome divided by the latest period's shares outstanding, a missing or
\* zero netIncome adding 0; on the worked example (netIncome 100 and
\* freeCashFlow 50 per period, 1000 shares in the latest period, close 20 on
\* its date) the result has netIncome 400, freeCashFlow 200, eps 0.4, marketCap
\* 20000, pe 50, fcfYield 0.01 and fcfPerShare 0.2.
C19_EpsUsesLatestShares ==
    (TrailingCalled /\ call.out.status = "return" /\ call.out.value # Null) =>
        LET shares == call.out.value.sharesOutstanding
        IN  /\ shares \in {Ranked(1).basicAverageShares, Ranked(1).ordinarySharesNumber}
            /\ call.out.value.eps =
                  Add(Add(Add(EpsShare(Ranked(4), shares), EpsShare(Ranked(3), shares)),
                          EpsShare(Ranked(2), shares)),
                      EpsShare(Ranked(1), shares))
            /\ ( /\ dataset = ExampleDataset
                 /\ Ranked(1).date.t = PeriodEnd(NumPeriods)
                 /\ prices = SeriesFrom(1, ExampleClosePrices) ) =>
                    /\ call.out.value.netIncome = Num(400)
                    /\ call.out.value.freeCashFlow = Num(200)
                    /\ call.out.value.eps = Frac(2, 5)
                    /\ call.out.value.marketCap = Num(20000)
                    /\ call.out.value.pe = Num(50)
                    /\ call.out.value.fcfYield = Frac(1, 100)
                    /\ call.out.value.fcfPerShare = Frac(1, 5)

\* the worked example, its statements received latest first
C19_Witness ==
    /\ TrailingCalled
    /\ dataset = ExampleDataset
    /\ prices = SeriesFrom(1, ExampleClosePrices)
    /\ Len(statements) = 4
    /\ statements[1].date.t = PeriodEnd(NumPeriods)
    /\ statements[1].basicAverageShares = Num(1000)
    /\ statements[4].basicAverageShares = Num(800)
    /\ call.out.status = "return"
    /\ call.out.value.eps = Frac(2, 5)
    /\ call.out.value.pe = Num(50)

FlowFields ==
    {"netIncome", "freeCashFlow", "stockBasedCompensation", "totalRevenue", "operatingIncome"}

\* what a period adds to the sum of a field: nothing when it does not report it
Reported(st, field) == IF st[field] = Undef THEN Num(0) ELSE st[field]

\* the sum of a field over the 4 latest-dated statements, earliest first
WindowTotal(field) ==
    Add(Add(Add(Reported(Ranked(4), field), Reported(Ranked(3), field)),
            Reported(Ranked(2), field)),
        Reported(Ranked(1), field))

\* C20 as stated: each flow field of the result of calculateTrailingStatistics is
\* the sum of the field over the 4 latest-dated statements, a period that does
\* not report the field adding nothing.
C20_FlowFieldsAreWindowSums ==
    (TrailingCalled /\ call.out.status = "return" /\ call.out.value # Null) =>
        \A field \in FlowFields : call.out.value[field] = WindowTotal(field)

\* C20 amended: each flow field of the result is the sum of the field over the
\* 4 latest-dated statements that report it, and undefined (not 0) when none
\* of the 4 reports it.
C20_FlowFieldsAreSumsOfReportedValues ==
    (TrailingCalled /\ call.out.status = "return" /\ call.out.value # Null) =>
        \A field \in FlowFields :
            call.out.value[field] =
                IF \A r \in 1..4 : Ranked(r)[field] = Undef THEN Undef
                ELSE WindowTotal(field)

\* five statements, the oldest received last: a field summed over the four
\* latest periods and a field that none of them reports
C20_Witness ==
    /\ TrailingCalled
    /\ call.out.status = "return"
    /\ Len(statements) = 5
    /\ statements[5] = Ranked(5)
    /\ \A r \in 1..4 : Ranked(r).stockBasedCompensation = Undef
    /\ call.out.value.stockBasedCompensation = Undef
    /\ call.out.value.netIncome = Num(400)
    /\ call.out.value.totalRevenue = Num(2000)

\* C21: the point-in-time fields of the result of calculateTrailingStatistics
\* come from the latest-dated statement: its date, priceOn at that date, its
\* totalDebt, its cashCashEquivalentsAndShortTermInvestments or, when that is
\* missing or zero, its cashAndCashEquivalents, and its dilutedAverageShares
\* or, when that is missing or zero, the basic shares outstanding.
C21_PointInTimeFromLatestStatement ==
    (TrailingCalled /\ call.out.status = "return" /\ call.out.value # Null) =>
        LET latest == Ranked(1)
            result == call.out.value
        IN  /\ result.date = latest.date
            /\ Returned(result.close) = priceOn(latest.date.t, prices)
            /\ result.totalDebt = latest.totalDebt
            /\ result.totalCash =
                  IF Truthy(latest.cashCashEquivalentsAndShortTermInvestments)
                  THEN latest.cashCashEquivalentsAndShortTermInvestments
                  ELSE latest.cashAndCashEquivalents
            /\ result.dilutedSharesOutstanding =
                  IF Truthy(latest.dilutedAverageShares)
                  THEN latest.dilutedAverageShares
                  ELSE result.sharesOutstanding

\* both fallbacks taken, on the statement of the latest date, which arrived first
C21_Witness ==
    /\ TrailingCalled
    /\ call.out.status = "return"
    /\ Len(statements) = 5
    /\ statements[1] = Ranked(1)
    /\ Ranked(1).cashCashEquivalentsAndShortTermInvestments = Num(0)
    /\ Ranked(1).dilutedAverageShares = Undef
    /\ Truthy(Ranked(2).cashCashEquivalentsAndShortTermInvestments)
    /\ call.out.value.totalCash = Ranked(1).cashAndCashEquivalents
    /\ call.out.value.dilutedSharesOutstanding = call.out.value.sharesOutstanding
    /\ call.out.value.close = Num(10 * NumPeriods)

\* the statement of the series received that has the latest date
TTMLatestReceived ==
    CHOOSE st \in {statements[i] : i \in 1..Len(statements)} :
        \A i \in 1..Len(statements) : statements[i].date.t <= st.date.t

\* C22: a record returned by getTTMStatistics is derived from the latest-dated
\* statement of the (possibly converted) trailing series alone, whatever the
\* order of the series: eps is its basicEPS, netIncome and freeCashFlow are its
\* own values and close is priceOn at its date.
C22_TTMRecordFromLatestStatement ==
    (TTMCalled /\ call.out.status = "return" /\ call.out.value # Null) =>
        /\ call.out.value.date = TTMLatest.date
        /\ call.out.value.eps = TTMLatest.basicEPS
        /\ call.out.value.netIncome = TTMLatest.netIncome
        /\ call.out.value.freeCashFlow = TTMLatest.freeCashFlow
        /\ Returned(call.out.value.close) = priceOn(TTMLatest.date.t, prices)
        /\ call.out = getTTMStatistics(<<TTMLatestReceived>>, prices, call.priceCurrency,
                                       call.statementCurrency, rates)

\* two statements in another currency, the latest received first: the record
\* carries the converted basicEPS of the latest
C22_Witness ==
    /\ TTMCalled
    /\ CurrenciesDiffer(call.priceCurrency, call.statementCurrency)
    /\ Len(statements) = 2
    /\ statements[1].date.t > statements[2].date.t
    /\ call.out.status = "return"
    /\ call.out.value # Null
    /\ Truthy(statements[2].basicEPS)
    /\ Truthy(statements[2].netIncome)
    /\ call.out.value.eps = Mul(statements[1].basicEPS, RateAt(statements[1].date.t))
    /\ call.out.value.eps # statements[1].basicEPS
    /\ call.out.value.netIncome = Mul(statements[1].netIncome, RateAt(statements[1].date.t))

\* the quarterly series the stages of the report work on
ReportQuarterly ==
    IF CurrenciesDiffer(call.quoteSummary.currency, call.quoteSummary.financialCurrency)
    THEN convertCurrencyInStatements(statements, rates)
    ELSE Returned(statements)

\* C23: fetchFromYahooFinance calls getTTMStatistics, and with it
\* fetchTrailingStats, only for an EQUITY symbol for which
\* calculateTrailingStatistics has returned null; when
\* calculateTrailingStatistics returns a record or throws, fetchTrailingStats
\* is not called.
C23_FallbackOnlyAfterNull ==
    ReportCalled =>
        LET trailing ==
                IF ReportQuarterly.status = "throw" THEN ReportQuarterly
                ELSE calculateTrailingStatistics(ReportQuarterly.value, prices)
        IN  /\ "fetchTrailingStats" \in call.fetches =>
                  /\ call.quoteSummary.quoteType = Str("EQUITY")
                  /\ trailing = Returned(Null)
                  /\ Len(statements) < 4
            /\ trailing # Returned(Null) => "fetchTrailingStats" \notin call.fetches
            /\ ( /\ call.quoteSummary.quoteType = Str("EQUITY")
                 /\ trailing.status = "return"
                 /\ trailing.value # Null
                 /\ call.out.status = "return" ) => call.out.value.thisPeriod = trailing.value

\* an equity with five quarterly statements: thisPeriod is the trailing record
\* and the trailing statements are never asked for
C23_Witness ==
    /\ ReportCalled
    /\ call.quoteSummary.quoteType = Str("EQUITY")
    /\ Len(statements) = 5
    /\ call.out.status = "return"
    /\ call.out.value.thisPeriod # Null
    /\ call.out.value.thisPeriod.date = DateTime(PeriodEnd(NumPeriods))
    /\ "fetchQuarterlyStatements" \in call.fetches
    /\ "fetchTrailingStats" \notin call.fetches

\* the place in the series received of the statement with exactly r - 1
\* statements dated after it
RankedIndex(r) ==
    CHOOSE i \in 1..Len(statements) :
        Cardinality({j \in 1..Len(statements) :
                        statements[j].date.t > statements[i].date.t}) = r - 1

\* C24: previousPeriod of the report is calculateTrailingStatistics over the
\* 2nd to 5th latest-dated quarterly statements, so never over the latest one,
\* and is null when the symbol is not EQUITY or has fewer than 5 quarterly
\* statements.
C24_PreviousPeriodWindow ==
    (ReportCalled /\ call.out.status = "return") =>
        IF call.quoteSummary.quoteType # Str("EQUITY") \/ Len(statements) < 5
        THEN call.out.value.previousPeriod = Null
        ELSE LET quarterly == ReportQuarterly.value
                 window == [k \in 1..4 |-> quarterly[RankedIndex(6 - k)]]
             IN  /\ Returned(call.out.value.previousPeriod) =
                        calculateTrailingStatistics(window, prices)
                 /\ call.out.value.previousPeriod.date = statements[RankedIndex(2)].date
                 /\ call.out.value.previousPeriod.date # call.out.value.thisPeriod.date

\* five quarterly statements, the latest received first: thisPeriod ends on
\* the latest date and previousPeriod one quarter before
C24_Witness ==
    /\ ReportCalled
    /\ call.quoteSummary.quoteType = Str("EQUITY")
    /\ Len(statements) = 5
    /\ RankedIndex(1) = 1
    /\ call.out.status = "return"
    /\ call.out.value.thisPeriod.date = statements[1].date
    /\ call.out.value.previousPeriod # Null
    /\ call.out.value.previousPeriod.date = statements[RankedIndex(2)].date
    /\ call.out.value.previousPeriod.netIncome # call.out.value.thisPeriod.netIncome

\* both currencies of the quote summary are known and they are not the same
ConversionApplies ==
    /\ call.quoteSummary.currency.k = "string"
    /\ call.quoteSummary.financialCurrency.k = "string"
    /\ call.quoteSummary.currency.s # call.quoteSummary.financialCurrency.s

\* C25: in a run of fetchFromYahooFinance each statement series is converted
\* once when both currencies are known and differ and not at all otherwise,
\* and trailing statistics, previous period, fallback and growth rates are
\* computed from the series so converted.
C25_SeriesConvertedOnce ==
    (ReportCalled /\ call.out.status = "return"
                  /\ call.quoteSummary.quoteType = Str("EQUITY")) =>
        LET Once(series) ==
                IF ConversionApplies
                THEN convertCurrencyInStatements(series, rates).value
                ELSE series
            quarterly == Once(statements)
            annual == Once(AnnualStatements)
            trailing == Once(TrailingStatements)
            report == call.out.value
        IN  /\ "fetchPrices(pair)" \in call.fetches <=> ConversionApplies
            /\ report.marginsAndGrowth.revenue =
                  [annual |-> Get(calculateGrowth(annual), "revenue"),
                   quarterly |-> Get(calculateGrowth(quarterly), "revenue")]
            /\ report.marginsAndGrowth.earnings =
                  [annual |-> Get(calculateGrowth(annual), "earnings"),
                   quarterly |-> Get(calculateGrowth(quarterly), "earnings")]
            /\ Len(statements) >= 4 =>
                  Returned(report.thisPeriod) = calculateTrailingStatistics(quarterly, prices)
            /\ Len(statements) < 4 =>
                  Returned(report.thisPeriod) =
                      getTTMStatistics(trailing, prices, Undef, Undef, rates)
            /\ Len(statements) >= 5 =>
                  Returned(report.previousPeriod) =
                      calculateTrailingStatistics(
                          TakeRight(DropRight(SortByDate(quarterly), 1), 4), prices)

\* an equity quoted in USD that reports in EUR: growth rates and trailing sums
\* are those of the converted statements
C25_Witness ==
    /\ ReportCalled
    /\ ConversionApplies
    /\ call.quoteSummary.quoteType = Str("EQUITY")
    /\ Len(statements) = 5
    /\ call.out.status = "return"
    /\ call.out.value.marginsAndGrowth.revenue.quarterly \notin {Undef, Null}
    /\ call.out.value.marginsAndGrowth.revenue.quarterly #
          calculateGrowth(statements).revenue
    /\ Truthy(SumOf(statements, "freeCashFlow"))
    /\ call.out.value.thisPeriod.freeCashFlow \notin
          {SumOf(statements, "freeCashFlow"), NaN, Undef}

InCall(c) == api.callers[c].state \in {"attempting", "waiting"}
SettledCall(c) == api.callers[c].state \in {"returned", "thrown"}

\* C26: withRetries terminates; it calls fn again only after a rate-limit
\* error with retries left, after a delay that starts at 2000 ms and doubles
\* with each retry, at most 5 times (6 attempts); any other error is rethrown
\* at once and, with no retries left, the last error is rethrown.
C26_WithRetriesTerminates ==
    /\ \A c \in Callers : InCall(c) ~> SettledCall(c)
    /\ [](\A c \in Callers :
            LET caller == api.callers[c]
            IN  caller.state # "idle" =>
                  /\ caller.attempts \in 1..6
                  /\ caller.retries = 6 - caller.attempts
                  /\ caller.delay * (2 ^ caller.retries) = 2000 * 32
                  /\ caller.state = "waiting" =>
                        IsRateLimit(caller.error) /\ caller.retries > 0
                  /\ caller.state = "thrown" =>
                        /\ caller.error \in ProviderErrors
                        /\ IsRateLimit(caller.error) => caller.attempts = 6)

\* five retries used up on rate-limit errors, the last one rethrown
C26_Witness ==
    \E c \in Callers :
        /\ api.callers[c].state = "thrown"
        /\ api.callers[c].method = "fetchSummary"
        /\ api.callers[c].attempts = 6
        /\ api.callers[c].delay = 64000
        /\ IsRateLimit(api.callers[c].error)
        /\ api.callers[c].error.code # 429

PricesCallers(key) ==
    {c \in Callers : api.callers[c].method = "fetchPrices" /\ api.callers[c].key = key}

\* C27: whatever the interleaving of fetchPrices calls, the provider is asked at
\* most once for a key; callers that arrive while the request is pending await
\* it and get its result; and a call never gets the cached result of another key.
C27_OneProviderRequestPerKey ==
    \A key \in Keys :
        /\ api.requests[key] <= 1
        /\ api.requests[key] = 1 <=> PricesCallers(key) # {}
        /\ api.requests[key] = 0 <=> api.cache[key].status = "none"
        /\ \A c \in PricesCallers(key) :
              /\ api.callers[c].state = "attempting" <=> api.cache[key].status = "pending"
              /\ api.callers[c].state = "returned" => api.cache[key].status = "fulfilled"
              /\ api.callers[c].state \in {"waiting", "thrown"} =>
                    /\ api.cache[key].status = "rejected"
                    /\ api.callers[c].error = api.cache[key].error

\* two callers share the one request of a key, then both have its data, while the
\* other key has a request of its own or none
C27_Witness ==
    /\ NumCallers >= 2
    /\ PricesCallers("AAPL") = {1, 2}
    /\ api.callers[1].state = "returned"
    /\ api.callers[2].state = "returned"
    /\ api.requests["AAPL"] = 1
    /\ api.requests["EURUSD=X"] = 0

\* C28: when the first provider request of fetchPrices for a key fails with a
\* rate-limit error, each retry of withRetries issues a new provider request
\* for the key (the failed request is not served again from the cache).
C28_RetryIssuesNewRequest ==
    \A c \in Callers :
        (api.callers[c].method = "fetchPrices" /\ api.callers[c].attempts >= 2) =>
            api.requests[api.callers[c].key] >= 2

\* the calls of withLibraryLoggingSuppressed whose fn has not settled: the chart
\* requests awaited under a key, and the summary requests of the callers
WrappedInFlight ==
    Cardinality({key \in Keys : api.cache[key].status = "pending"})
      + Cardinality({c \in Callers : /\ api.callers[c].method = "fetchSummary"
                                     /\ api.callers[c].state = "attempting"})

\* C29: for any interleaving of overlapping withLibraryLoggingSuppressed calls
\* that succeed or throw, yahooLogSuppressCount is the number of wrapped calls in
\* flight and is never negative, console.log is the filtering wrapper exactly
\* while the count is above 0, the saved original sink is never the wrapper, and
\* once all calls have settled console.log is the original sink again.
C29_LogSuppressionIsBalanced ==
    /\ api.yahooLogSuppressCount = WrappedInFlight
    /\ api.yahooLogSuppressCount >= 0
    /\ api.consoleLog = "wrapper" <=> api.yahooLogSuppressCount > 0
    /\ api.originalConsoleLog # "wrapper"
    /\ api.originalConsoleLog = "original" <=> api.yahooLogSuppressCount > 0
    /\ WrappedInFlight = 0 => api.consoleLog = "original" /\ api.originalConsoleLog = "null"

\* two wrapped calls overlap, the second of them a retry after a wrapped call
\* that threw: the count is 2 and the sink is the wrapper, the original saved
C29_Witness ==
    /\ api.yahooLogSuppressCount = 2
    /\ api.consoleLog = "wrapper"
    /\ api.originalConsoleLog = "original"
    /\ api.cache["AAPL"].status = "pending"
    /\ \E c \in Callers : /\ api.callers[c].method = "fetchSummary"
                          /\ api.callers[c].state = "attempting"
                          /\ api.callers[c].attempts = 2

WriterInvoked == batch.writer # "idle"

\* C30: in processAndSaveParallel the batch writer is invoked only after every
\* pipeline has settled and at most once, the results it receives have one entry
\* per input symbol in the order of the input list whatever the order of
\* completion, and the counter is the number of completed pipelines, never more
\* than the number of symbols.
C30_WriterAfterAllInInputOrder ==
    /\ [](WriterInvoked =>
            /\ \A s \in Symbols : batch.phase[s] = "done"
            /\ Len(batch.results) = NumSymbols
            /\ \A i \in 1..NumSymbols : batch.results[i] = i)
    /\ [](~WriterInvoked => batch.results = <<>>)
    /\ [](/\ batch.counter = Cardinality({s \in Symbols : batch.phase[s] = "done"})
          /\ batch.counter <= NumSymbols)
    /\ [][/\ batch.writer = "writing" => batch'.writer \in {"writing", "written"}
          /\ batch.writer = "written" => batch'.writer = "written"
          /\ WriterInvoked => batch'.results = batch.results]_vars

\* the writer has run on the results of a batch whose pipelines completed in
\* another order than the input list
C30_Witness ==
    /\ batch.writer = "written"
    /\ batch.counter = NumSymbols
    /\ Len(batch.order) = NumSymbols
    /\ \E i \in 1..NumSymbols : batch.order[i] # i
    /\ batch.results = [i \in 1..NumSymbols |-> i]

====
